---- MODULE Spec2Model ----
(***************************************************************************)
(* Medical Laboratory Management System (src/main.py, class MedicalLabApp) *)
(* The shared store (self.db) is used by one or more application sessions. *)
(* Each session has its own current_user, navigation buttons, open dialog  *)
(* and last message box.                                                   *)
(***************************************************************************)
EXTENDS Integers, Sequences, FiniteSets, TLC

(***************************************************************************)
(* Bounds of the model                                                     *)
(***************************************************************************)
MaxUsers == 2
MaxPatients == 2
MaxRequests == 2
MaxUuid == 9
MaxReports == 2
MaxTestTypes == 5
MaxTestNumber == 2

(***************************************************************************)
(* Program constants                                                       *)
(***************************************************************************)
PatientIdWidth == 8
TestIdWidth == 3
MinPasswordLength == 6

Sessions == {"s1", "s2"}

NORMAL == "normal"
DISABLED == "disabled"

ADMIN == "ADMIN"
TECHNICIAN == "TECHNICIAN"
DOCTOR == "DOCTOR"
RECEPTIONIST == "RECEPTIONIST"
UserRole == {ADMIN, TECHNICIAN, DOCTOR, RECEPTIONIST}

PENDING == "PENDING"
IN_PROGRESS == "IN_PROGRESS"
COMPLETED == "COMPLETED"
CANCELLED == "CANCELLED"
TestStatus == {PENDING, IN_PROGRESS, COMPLETED, CANCELLED}

COLLECTED == "COLLECTED"
PROCESSING == "PROCESSING"
SampleStatus == {COLLECTED, PROCESSING, COMPLETED}

\* the navigation buttons built by setup_navigation
NavItems ==
    {"Dashboard", "Patients", "Tests", "Samples", "Reports", "Billing",
     "Inventory", "Users", "Statistics"}

\* the header buttons that only an administrator may use
AdminButtons == {"change_password_btn", "server_icon_btn", "edit_system_name_btn"}

\* the permission check boxes of the add-user dialog, by category
permissions_by_category ==
    [Patients   |-> {"VIEW_PATIENTS", "ADD_PATIENT", "EDIT_PATIENT", "DELETE_PATIENT"},
     Tests      |-> {"VIEW_TESTS", "ADD_TEST", "EDIT_TEST", "DELETE_TEST"},
     Samples    |-> {"VIEW_SAMPLES", "ADD_SAMPLE", "EDIT_SAMPLE", "DELETE_SAMPLE"},
     Reports    |-> {"VIEW_REPORTS", "ADD_REPORT", "EDIT_REPORT", "DELETE_REPORT",
                     "SIGN_REPORT"},
     Billing    |-> {"VIEW_BILLING", "ADD_INVOICE", "EDIT_INVOICE", "DELETE_INVOICE"},
     Inventory  |-> {"VIEW_INVENTORY", "ADD_INVENTORY", "EDIT_INVENTORY",
                     "DELETE_INVENTORY"},
     Users      |-> {"VIEW_USERS", "ADD_USER", "EDIT_USER", "DELETE_USER"},
     Statistics |-> {"VIEW_STATISTICS", "GENERATE_REPORTS"}]

Permission == UNION {permissions_by_category[c] : c \in DOMAIN permissions_by_category}

(***************************************************************************)
(* Inputs typed into the dialogs                                           *)
(***************************************************************************)
UsernameInputs == {"", "admin", "tech", "doc"}
PasswordInputs == {"", "admin123", "secret1"}
EmailInputs == {"", "user@lab.com"}
NewPasswordInputs == {"", "secret1"}
RoleTextInputs == {"", "Admin", "Technician"}
PermissionInputs == SUBSET {"ADD_PATIENT", "VIEW_USERS"}

VARIABLES
    users,            \* store: user id -> User
    patients,         \* store: patient id -> Patient
    test_types,       \* store: test type id -> TestType
    test_requests,    \* store: test request id -> TestRequest
    samples,          \* store: sample id -> Sample
    medical_reports,  \* store: report id -> MedicalReport
    uuid_counter,     \* number of uuid4() values drawn so far
    patient_log,      \* ids of the patients created, in order of creation
    current_user,     \* per session: the logged-in User or NoUser
    nav_buttons,      \* per session: state of every navigation button
    admin_buttons,    \* per session: state of the admin-only header buttons
    dialog,           \* per session: the open modal dialog and what it holds
    message,          \* per session: the title of the last message box shown, or
                      \* the name of the exception Tk reported for the handler
    language,         \* per session: the interface language
    system_name       \* per session: the text of the title label of the window

store == <<users, patients, test_types, test_requests, samples, medical_reports,
           uuid_counter, patient_log>>
login_state == <<current_user, nav_buttons, admin_buttons>>
session == <<login_state, dialog, message, language, system_name>>
vars == <<store, session>>

(***************************************************************************)
(* Values                                                                  *)
(***************************************************************************)
NoUser ==
    [id |-> "", username |-> "", email |-> "", password_hash |-> "",
     role |-> "", is_active |-> FALSE, permissions |-> {}]

NoDialog == [kind |-> "none"]

\* the text the title label is built with
SystemName == "Medical Laboratory Management System"

\* hashlib.sha256(password).hexdigest(): injective on the passwords typed
hash_password(password) ==
    CASE password = "admin123" -> "sha256(admin123)"
      [] password = "secret1" -> "sha256(secret1)"
      [] OTHER -> "sha256()"

\* uuid.uuid4(): the n-th value drawn; no value is drawn twice
UuidPool ==
    <<"uuid-01", "uuid-02", "uuid-03", "uuid-04", "uuid-05", "uuid-06",
      "uuid-07", "uuid-08", "uuid-09", "uuid-10", "uuid-11", "uuid-12",
      "uuid-13", "uuid-14", "uuid-15", "uuid-16">>

uuid4_nth(n) == UuidPool[uuid_counter + n]

uuid4 == uuid4_nth(1)

\* position of a uuid in the order of drawing
UuidIndex(id) == CHOOSE i \in 1..Len(UuidPool) : UuidPool[i] = id

\* translations._ : the text in the language of the session
Translate(lang, text) ==
    IF lang = "en" THEN text
    ELSE CASE text = "Pending" -> "ar:Pending"
           [] text = "In Progress" -> "ar:In Progress"
           [] text = "Completed" -> "ar:Completed"
           [] text = "Cancelled" -> "ar:Cancelled"
           [] text = "Collected" -> "ar:Collected"
           [] text = "Processing" -> "ar:Processing"
           [] OTHER -> text

(***************************************************************************)
(* The store (database.DatabaseManager)                                    *)
(***************************************************************************)
get_user_by_username(username) ==
    {id \in DOMAIN users : users[id].username = username}

\* exact-match lookup by username, then comparison of the hash
authenticate_user(username, password_hash) ==
    {id \in DOMAIN users :
        /\ users[id].username = username
        /\ users[id].password_hash = password_hash}

\* usernames are unique in the store
create_user_ok(user) == get_user_by_username(user.username) = {}

(***************************************************************************)
(* Login, logout and navigation                                            *)
(***************************************************************************)
enable_navigation_no_admin_override(user) ==
    [nav |-> [b \in NavItems |->
                IF b = "Dashboard"
                   \/ (b # "Dashboard" /\ permissions_by_category[b] \cap user.permissions # {})
                THEN NORMAL ELSE DISABLED],
     admin |-> [b \in AdminButtons |-> IF user.role = ADMIN THEN NORMAL ELSE DISABLED]]

enable_navigation(user) ==
    IF user.role = ADMIN
    THEN [nav |-> [b \in NavItems |-> NORMAL],
          admin |-> [b \in AdminButtons |-> NORMAL]]
    ELSE [nav |-> [b \in NavItems |-> NORMAL],
          admin |-> [b \in AdminButtons |-> DISABLED]]

login(s, username, password) ==
    /\ current_user[s] = NoUser
    /\ dialog[s] = NoDialog
    /\ IF username = "" \/ password = ""
       THEN /\ message' = [message EXCEPT ![s] = "Error"]  \* Please enter both username and password
            /\ UNCHANGED <<current_user, nav_buttons, admin_buttons>>
       ELSE LET found == authenticate_user(username, hash_password(password)) IN
            IF found # {}
            THEN \E id \in found :
                    /\ current_user' = [current_user EXCEPT ![s] = users[id]]
                    /\ nav_buttons' = [nav_buttons EXCEPT ![s] = enable_navigation(users[id]).nav]
                    /\ admin_buttons' = [admin_buttons EXCEPT ![s] = enable_navigation(users[id]).admin]
                    /\ UNCHANGED message
            ELSE /\ message' = [message EXCEPT ![s] = "Error"]  \* Invalid username or password
                 /\ UNCHANGED <<current_user, nav_buttons, admin_buttons>>
    /\ UNCHANGED <<store, dialog, language, system_name>>

logout(s) ==
    /\ current_user[s] # NoUser
    /\ dialog[s] = NoDialog
    /\ current_user' = [current_user EXCEPT ![s] = NoUser]
    /\ nav_buttons' = [nav_buttons EXCEPT ![s] = [b \in NavItems |-> DISABLED]]
    /\ admin_buttons' = [admin_buttons EXCEPT ![s] = [b \in AdminButtons |-> DISABLED]]
    /\ UNCHANGED <<store, dialog, message, language, system_name>>

(***************************************************************************)
(* Users screen                                                            *)
(***************************************************************************)
role_map(role_text) ==
    CASE role_text = "Admin" -> ADMIN
      [] role_text = "Technician" -> TECHNICIAN
      [] role_text = "Doctor" -> DOCTOR
      [] OTHER -> RECEPTIONIST

add_user_save_user(s, username, email, password, role_text, is_active, selected_permissions) ==
    /\ nav_buttons[s]["Users"] = NORMAL
    /\ dialog[s] = NoDialog
    /\ Cardinality(DOMAIN users) < MaxUsers
    /\ uuid_counter < MaxUuid
    /\ IF username = ""
       THEN /\ message' = [message EXCEPT ![s] = "Error"]  \* Please enter username
            /\ UNCHANGED store
       ELSE IF email = ""
       THEN /\ message' = [message EXCEPT ![s] = "Error"]  \* Please enter email
            /\ UNCHANGED store
       ELSE IF password = ""
       THEN /\ message' = [message EXCEPT ![s] = "Error"]  \* Please enter password
            /\ UNCHANGED store
       ELSE IF role_text = ""
       THEN /\ message' = [message EXCEPT ![s] = "Error"]  \* Please select role
            /\ UNCHANGED store
       ELSE LET user == [id |-> uuid4, username |-> username, email |-> email,
                         password_hash |-> hash_password(password),
                         role |-> role_map(role_text), is_active |-> is_active,
                         permissions |-> selected_permissions] IN
            /\ uuid_counter' = uuid_counter + 1
            /\ IF create_user_ok(user)
               THEN /\ users' = users @@ (user.id :> user)
                    /\ message' = [message EXCEPT ![s] = "Success"]  \* User added successfully
               ELSE /\ users' = users
                    /\ message' = [message EXCEPT ![s] = "Error"]  \* Failed to add user
            /\ UNCHANGED <<patients, test_types, test_requests, samples,
                           medical_reports, patient_log>>
    /\ UNCHANGED <<login_state, dialog, language, system_name>>

\* edit_user finding the user of a row and its save_user storing the username
\* typed, db.update_user overwriting the row
edit_user_renames(s) ==
    /\ nav_buttons[s]["Users"] = NORMAL
    /\ dialog[s] = NoDialog
    /\ \E user_id \in DOMAIN users, username \in {"admin", "tech"} :
          users' = [users EXCEPT ![user_id].username = username]
    /\ message' = [message EXCEPT ![s] = "Success"]
    /\ UNCHANGED <<patients, test_types, test_requests, samples, medical_reports,
                   uuid_counter, patient_log, login_state, dialog, language, system_name>>

\* the users table holds one placeholder row whose id column is "N/A", so
\* get_user finds nothing and the edit dialog is never built
edit_user(s) ==
    /\ nav_buttons[s]["Users"] = NORMAL
    /\ dialog[s] = NoDialog
    /\ message' = [message EXCEPT ![s] = "Error"]  \* User not found
    /\ UNCHANGED <<store, login_state, dialog, language, system_name>>

(***************************************************************************)
(* Sequential display ids (8-digit patient ids), kept as digit strings     *)
(***************************************************************************)
RECURSIVE int(_)
\* int(text) for a string of decimal digits
int(digits) ==
    IF digits = << >> THEN 0
    ELSE 10 * int(SubSeq(digits, 1, Len(digits) - 1)) + digits[Len(digits)]

RECURSIVE str(_)
\* str(n) for n >= 0
str(n) == IF n < 10 THEN <<n>> ELSE str(n \div 10) \o <<n % 10>>

\* text.zfill(width)
zfill(digits, width) ==
    IF Len(digits) >= width THEN digits
    ELSE [i \in 1..(width - Len(digits)) |-> 0] \o digits

RECURSIVE max_of(_)
max_of(S) ==
    IF S = {} THEN 0
    ELSE LET x == CHOOSE y \in S : TRUE
             m == max_of(S \ {x})
         IN IF x > m THEN x ELSE m

\* the current maximum of the patient ids held by the store
max_sequential_id(stored) == max_of({int(id) : id \in DOMAIN stored})

\* what an allocator returns when the fixed width is exceeded
AllocationExhausted == << >>

\* the largest number that fits the fixed width
max_id(width) == 10 ^ width - 1

\* the smallest value above the current maximum in the store, zero-padded;
\* the allocation fails when that value does not fit the fixed width
generate_patient_id(stored) ==
    IF max_sequential_id(stored) + 1 > max_id(PatientIdWidth)
    THEN AllocationExhausted
    ELSE zfill(str(max_sequential_id(stored) + 1), PatientIdWidth)

\* a patient row is inserted unless its id is already taken
create_patient_ok(stored, patient) == patient.id \notin DOMAIN stored

(***************************************************************************)
(* Patients screen                                                         *)
(***************************************************************************)
NameInputs == {"", "Jane Doe"}
AgeInputs == {"34", "151", "abc"}
GenderTextInputs == {"", "Female"}

\* int(age_str): the number, or -1 standing for ValueError
parse_age(age_str) ==
    CASE age_str = "34" -> 34
      [] age_str = "151" -> 151
      [] OTHER -> -1

gender_map(lang, gender_text) ==
    CASE gender_text = Translate(lang, "Male") -> "MALE"
      [] gender_text = Translate(lang, "Female") -> "FEMALE"
      [] OTHER -> "OTHER"

\* save_patient up to and including db.generate_patient_id()
save_patient_generate(s, name, age_str, gender_text) ==
    /\ nav_buttons[s]["Patients"] = NORMAL
    /\ dialog[s] = NoDialog
    /\ Cardinality(DOMAIN patients) < MaxPatients
    /\ Len(patient_log) < MaxPatients + 1
    /\ IF name = ""
       THEN /\ message' = [message EXCEPT ![s] = "Error"]  \* Please enter patient name
            /\ UNCHANGED dialog
       ELSE IF parse_age(age_str) < 0 \/ parse_age(age_str) > 150
       THEN /\ message' = [message EXCEPT ![s] = "Error"]  \* Please enter a valid age
            /\ UNCHANGED dialog
       ELSE IF gender_text = ""
       THEN /\ message' = [message EXCEPT ![s] = "Error"]  \* Please select gender
            /\ UNCHANGED dialog
       ELSE IF generate_patient_id(patients) = AllocationExhausted
       THEN /\ message' = [message EXCEPT ![s] = "AllocationExhausted"]  \* the exception leaves save_patient
            /\ UNCHANGED dialog
       ELSE /\ dialog' = [dialog EXCEPT ![s] =
                            [kind |-> "add_patient",
                             patient |-> [id |-> generate_patient_id(patients),
                                          name |-> name,
                                          age |-> parse_age(age_str),
                                          gender |-> gender_map(language[s], gender_text),
                                          contact_info |-> ""]]]
            /\ UNCHANGED message
    /\ UNCHANGED <<store, login_state, language, system_name>>

\* save_patient from db.create_patient(patient) on
save_patient_create(s) ==
    /\ dialog[s].kind = "add_patient"
    /\ LET patient == dialog[s].patient IN
       IF create_patient_ok(patients, patient)
       THEN /\ patients' = patients @@ (patient.id :> patient)
            /\ patient_log' = Append(patient_log, patient.id)
            /\ message' = [message EXCEPT ![s] = "Success"]  \* Patient added successfully
       ELSE /\ message' = [message EXCEPT ![s] = "Error"]  \* Failed to add patient
            /\ UNCHANGED <<patients, patient_log>>
    /\ dialog' = [dialog EXCEPT ![s] = NoDialog]
    /\ UNCHANGED <<users, test_types, test_requests, samples, medical_reports,
                   uuid_counter, login_state, language, system_name>>

delete_patient(s, patient_id) ==
    /\ nav_buttons[s]["Patients"] = NORMAL
    /\ dialog[s] = NoDialog
    /\ patient_id \in DOMAIN patients
    /\ patients' = [id \in DOMAIN patients \ {patient_id} |-> patients[id]]
    /\ message' = [message EXCEPT ![s] = "Success"]  \* Patient deleted successfully
    /\ UNCHANGED <<users, test_types, test_requests, samples, medical_reports,
                   uuid_counter, patient_log, login_state, dialog, language, system_name>>

(***************************************************************************)
(* Test requests of a patient                                              *)
(***************************************************************************)
RequestedByInputs == {"", "admin"}
ContentInputs == {"", "Hb 13.5 g/dL"}
Barcodes == {"BC-A", "BC-B"}

\* the test types the user picks from in the list boxes
TestChoices == {"uuid-02", "uuid-03"}

\* TestStatus.<member>.value
TestStatusValue(status) ==
    CASE status = PENDING -> "Pending"
      [] status = IN_PROGRESS -> "In Progress"
      [] status = COMPLETED -> "Completed"
      [] status = CANCELLED -> "Cancelled"

\* the values offered by the status combo box of the edit dialog
StatusComboValues(lang) ==
    {Translate(lang, "Pending"), Translate(lang, "In Progress"),
     Translate(lang, "Completed"), Translate(lang, "Cancelled")}

\* status_map.get(status_var.get(), TestStatus.PENDING)
status_map(lang, status_text) ==
    CASE status_text = Translate(lang, "Pending") -> PENDING
      [] status_text = Translate(lang, "In Progress") -> IN_PROGRESS
      [] status_text = Translate(lang, "Completed") -> COMPLETED
      [] status_text = Translate(lang, "Cancelled") -> CANCELLED
      [] OTHER -> PENDING

new_test_request_in_progress(id, patient_id, test_type_id, requested_by) ==
    [id |-> id, patient_id |-> patient_id, test_type_id |-> test_type_id,
     requested_by |-> requested_by, status |-> IN_PROGRESS]

\* TestRequest(...) as built by the request dialog and by the add-sample dialog
new_test_request(id, patient_id, test_type_id, requested_by) ==
    [id |-> id, patient_id |-> patient_id, test_type_id |-> test_type_id,
     requested_by |-> requested_by, status |-> PENDING]

\* position of x among the selected items, in the order of the list box
Rank(x, selected) ==
    Cardinality({y \in selected : UuidIndex(y) <= UuidIndex(x)})

\* opens the request dialog: the patient is looked up, the test types are listed
request_test_for_patient(s, patient_id) ==
    /\ nav_buttons[s]["Patients"] = NORMAL
    /\ dialog[s] = NoDialog
    /\ patient_id \in DOMAIN patients
    /\ dialog' = [dialog EXCEPT ![s] =
                    [kind |-> "request_test", patient_id |-> patient_id,
                     test_map |-> test_types]]
    /\ UNCHANGED <<store, login_state, message, language, system_name>>

\* the message box that ends save_test_requests: title and counts
request_report(success_count, failed_count) ==
    IF success_count > 0
    THEN IF failed_count > 0
         THEN "Partial Success: " \o ToString(success_count)
                 \o " requested, failed " \o ToString(failed_count)
         ELSE "Success: " \o ToString(success_count) \o " requested"
    ELSE "Error: failed " \o ToString(failed_count)

save_test_requests_stop_at_failure(s, selected_indices, requested_by, failed_creates) ==
    /\ dialog[s].kind = "request_test"
    /\ selected_indices \subseteq DOMAIN dialog[s].test_map
    /\ failed_creates \subseteq selected_indices
    /\ Cardinality(DOMAIN test_requests) + Cardinality(selected_indices) <= MaxRequests
    /\ uuid_counter + Cardinality(selected_indices) <= MaxUuid
    /\ IF selected_indices = {}
       THEN /\ message' = [message EXCEPT ![s] = "Error"]
            /\ UNCHANGED <<store, dialog>>
       ELSE IF requested_by = ""
       THEN /\ message' = [message EXCEPT ![s] = "Error"]
            /\ UNCHANGED <<store, dialog>>
       ELSE LET attempted == {t \in selected_indices :
                                 \A f \in failed_creates :
                                    Rank(f, selected_indices) >= Rank(t, selected_indices)}
                created == attempted \ failed_creates
                new_ids == {uuid4_nth(Rank(t, selected_indices)) : t \in created}
                test_of(id) == CHOOSE t \in created :
                                  uuid4_nth(Rank(t, selected_indices)) = id
                success_count == Cardinality(created)
                failed_count == Cardinality(attempted \cap failed_creates)
            IN
            /\ test_requests' =
                  [id \in DOMAIN test_requests \cup new_ids |->
                      IF id \in new_ids
                      THEN new_test_request(id, dialog[s].patient_id,
                                            dialog[s].test_map[test_of(id)].id,
                                            requested_by)
                      ELSE test_requests[id]]
            /\ uuid_counter' = uuid_counter + Cardinality(attempted)
            /\ message' = [message EXCEPT ![s] =
                              request_report(success_count, failed_count)]
            /\ dialog' = [dialog EXCEPT ![s] =
                            IF success_count > 0 THEN NoDialog ELSE dialog[s]]
            /\ UNCHANGED <<users, patients, test_types, samples, medical_reports,
                           patient_log>>
    /\ UNCHANGED <<login_state, language, system_name>>

\* one TestRequest per selected test type, each with its own uuid;
\* failed_creates are the selected items for which db.create_test_request
\* returns False and stores nothing
save_test_requests(s, selected_indices, requested_by, failed_creates) ==
    /\ dialog[s].kind = "request_test"
    /\ selected_indices \subseteq DOMAIN dialog[s].test_map
    /\ failed_creates \subseteq selected_indices
    /\ Cardinality(DOMAIN test_requests) + Cardinality(selected_indices) <= MaxRequests
    /\ uuid_counter + Cardinality(selected_indices) <= MaxUuid
    /\ IF selected_indices = {}
       THEN /\ message' = [message EXCEPT ![s] = "Error"]  \* Please select at least one examination
            /\ UNCHANGED <<store, dialog>>
       ELSE IF requested_by = ""
       THEN /\ message' = [message EXCEPT ![s] = "Error"]  \* Please enter who requested the examinations
            /\ UNCHANGED <<store, dialog>>
       ELSE LET created == selected_indices \ failed_creates
                new_ids == {uuid4_nth(Rank(t, selected_indices)) : t \in created}
                test_of(id) == CHOOSE t \in created :
                                  uuid4_nth(Rank(t, selected_indices)) = id
                success_count == Cardinality(created)
                failed_tests == failed_creates
            IN
            /\ test_requests' =
                  [id \in DOMAIN test_requests \cup new_ids |->
                      IF id \in new_ids
                      THEN new_test_request(id, dialog[s].patient_id,
                                            dialog[s].test_map[test_of(id)].id,
                                            requested_by)
                      ELSE test_requests[id]]
            /\ uuid_counter' = uuid_counter + Cardinality(selected_indices)
            /\ message' = [message EXCEPT ![s] =
                              request_report(success_count, Cardinality(failed_tests))]
            /\ dialog' = [dialog EXCEPT ![s] =
                            IF success_count > 0 THEN NoDialog ELSE dialog[s]]
            /\ UNCHANGED <<users, patients, test_types, samples, medical_reports,
                           patient_log>>
    /\ UNCHANGED <<login_state, language, system_name>>

\* opens the list of the patient's requests; request_map holds the objects read
view_patient_test_requests(s, patient_id) ==
    /\ nav_buttons[s]["Patients"] = NORMAL
    /\ dialog[s] = NoDialog
    /\ patient_id \in DOMAIN patients
    /\ dialog' = [dialog EXCEPT ![s] =
                    [kind |-> "view_requests", patient_id |-> patient_id,
                     request_map |->
                        [id \in {r \in DOMAIN test_requests :
                                    test_requests[r].patient_id = patient_id}
                            |-> test_requests[id]]]]
    /\ UNCHANGED <<store, login_state, message, language, system_name>>

\* edit_selected_request followed by edit_test_request: the edit dialog opens
\* over the list when the test type of the request still exists
edit_test_request(s, request_id) ==
    /\ dialog[s].kind = "view_requests"
    /\ request_id \in DOMAIN dialog[s].request_map
    /\ LET request == dialog[s].request_map[request_id] IN
       IF request.test_type_id \notin DOMAIN test_types
       THEN /\ message' = [message EXCEPT ![s] = "Error"]  \* Test type not found
            /\ UNCHANGED dialog
       ELSE /\ dialog' = [dialog EXCEPT ![s] =
                            [kind |-> "edit_request",
                             patient_id |-> dialog[s].patient_id,
                             request_map |-> dialog[s].request_map,
                             request_id |-> request_id,
                             status_var |-> TestStatusValue(request.status)]]
            /\ UNCHANGED message
    /\ UNCHANGED <<store, login_state, language, system_name>>

\* the user picks a value of the status combo box
status_combo_select(s, status_text) ==
    /\ dialog[s].kind = "edit_request"
    /\ status_text \in StatusComboValues(language[s])
    /\ dialog[s].status_var # status_text
    /\ dialog' = [dialog EXCEPT ![s].status_var = status_text]
    /\ UNCHANGED <<store, login_state, message, language, system_name>>

\* an existing row is overwritten with the object passed when the store takes
\* the write
update_test_request_ok(request, store_writes) ==
    request.id \in DOMAIN test_requests /\ store_writes

\* save_changes of the edit dialog; store_writes tells whether
\* db.update_test_request stores the row and returns True, or stores nothing
\* and returns False
save_changes(s, requested_by, store_writes) ==
    /\ dialog[s].kind = "edit_request"
    /\ IF requested_by = ""
       THEN /\ message' = [message EXCEPT ![s] = "Error"]  \* Please enter who requested the test
            /\ UNCHANGED <<store, dialog>>
       ELSE LET status == status_map(language[s], dialog[s].status_var)
                request == [dialog[s].request_map[dialog[s].request_id]
                               EXCEPT !.requested_by = requested_by,
                                      !.status = status]
                request_map == [dialog[s].request_map EXCEPT ![request.id] = request]
            IN
            IF update_test_request_ok(request, store_writes)
            THEN /\ test_requests' = [test_requests EXCEPT ![request.id] = request]
                 /\ message' = [message EXCEPT ![s] = "Success"]  \* Test request updated successfully
                 /\ dialog' = [dialog EXCEPT ![s] =
                                 [kind |-> "view_requests",
                                  patient_id |-> dialog[s].patient_id,
                                  request_map |-> request_map]]
                 /\ UNCHANGED <<users, patients, test_types, samples, medical_reports,
                                uuid_counter, patient_log>>
            ELSE /\ message' = [message EXCEPT ![s] = "Error"]  \* Failed to update test request
                 /\ dialog' = [dialog EXCEPT ![s].request_map = request_map]
                 /\ UNCHANGED store
    /\ UNCHANGED <<login_state, language, system_name>>

\* a test request row is removed when the row exists
delete_test_request_ok(request_id) == request_id \in DOMAIN test_requests

\* delete_selected_request of the request list, the confirmation answered yes
delete_selected_request(s, request_id) ==
    /\ dialog[s].kind = "view_requests"
    /\ request_id \in DOMAIN dialog[s].request_map
    /\ IF delete_test_request_ok(request_id)
       THEN /\ test_requests' =
                  [id \in DOMAIN test_requests \ {request_id} |-> test_requests[id]]
            /\ message' = [message EXCEPT ![s] = "Success"]  \* Test request deleted successfully
            /\ dialog' = [dialog EXCEPT ![s].request_map =
                            [id \in DOMAIN dialog[s].request_map \ {request_id} |->
                                dialog[s].request_map[id]]]
            /\ UNCHANGED <<users, patients, test_types, samples, medical_reports,
                           uuid_counter, patient_log>>
       ELSE /\ message' = [message EXCEPT ![s] = "Error"]  \* Failed to delete test request
            /\ UNCHANGED <<store, dialog>>
    /\ UNCHANGED <<login_state, language, system_name>>

\* dialog.destroy of the Cancel and Close buttons
close_dialog(s) ==
    /\ dialog[s].kind \in {"request_test", "view_requests", "edit_request",
                           "add_sample", "create_new_result", "edit_result",
                           "create_report", "update_sample_status",
                           "edit_patient", "add_test", "edit_test",
                           "edit_system_name", "server_connection", "change_password",
                           "confirm_delete_test"}
    /\ dialog' = [dialog EXCEPT ![s] =
                    IF dialog[s].kind = "edit_request"
                    THEN [kind |-> "view_requests",
                          patient_id |-> dialog[s].patient_id,
                          request_map |-> dialog[s].request_map]
                    ELSE NoDialog]
    /\ UNCHANGED <<store, login_state, message, language, system_name>>

(***************************************************************************)
(* Samples screen: the add-sample dialog                                   *)
(***************************************************************************)
SampleStatusTextInputs == {"Collected", "Processing", "Completed"}

sample_status_map(lang, status_text) ==
    CASE status_text = Translate(lang, "Collected") -> COLLECTED
      [] status_text = Translate(lang, "Processing") -> PROCESSING
      [] status_text = Translate(lang, "Completed") -> COMPLETED
      [] OTHER -> COLLECTED

\* opens the add-sample dialog: the test types are listed
add_sample(s) ==
    /\ nav_buttons[s]["Samples"] = NORMAL
    /\ dialog[s] = NoDialog
    /\ dialog' = [dialog EXCEPT ![s] = [kind |-> "add_sample", test_types |-> test_types]]
    /\ UNCHANGED <<store, login_state, message, language, system_name>>

\* the i-th patient id handed out by the loop of save_sample: each turn asks
\* the store for the next id and inserts the patient before the next turn
nth_patient_id(i) == zfill(str(max_sequential_id(patients) + i), PatientIdWidth)

\* for each selected test: a new patient, a test request and a sample;
\* failed_creates are the tests whose db.create_test_request stores nothing and
\* returns False, which the loop does not look at
save_sample(s, patient_name, selected_tests, status_text, barcode, failed_creates) ==
    /\ dialog[s].kind = "add_sample"
    /\ selected_tests \subseteq DOMAIN dialog[s].test_types
    /\ failed_creates \subseteq selected_tests
    /\ barcode \in [selected_tests -> Barcodes]
    /\ Cardinality(DOMAIN patients) + Cardinality(selected_tests) <= MaxPatients
    /\ Len(patient_log) + Cardinality(selected_tests) <= MaxPatients + 1
    /\ Cardinality(DOMAIN test_requests) + Cardinality(selected_tests) <= MaxRequests
    /\ uuid_counter + 2 * Cardinality(selected_tests) <= MaxUuid
    /\ IF patient_name = ""
       THEN /\ message' = [message EXCEPT ![s] = "Error"]  \* Please enter patient name
            /\ UNCHANGED <<store, dialog>>
       ELSE IF selected_tests = {}
       THEN /\ message' = [message EXCEPT ![s] = "Error"]  \* Please select at least one test
            /\ UNCHANGED <<store, dialog>>
       ELSE IF status_text = ""
       THEN /\ message' = [message EXCEPT ![s] = "Error"]  \* Please select status
            /\ UNCHANGED <<store, dialog>>
       ELSE LET rank(t) == Rank(t, selected_tests)
                \* the turns of the loop made before an allocation fails
                free == max_id(PatientIdWidth) - max_sequential_id(patients)
                k == IF Cardinality(selected_tests) <= free
                     THEN Cardinality(selected_tests) ELSE free
                done == {t \in selected_tests : rank(t) <= k}
                request_id(t) == uuid4_nth(2 * rank(t) - 1)
                sample_id(t) == uuid4_nth(2 * rank(t))
                new_patients == {nth_patient_id(i) : i \in 1..k}
                new_requests == {request_id(t) : t \in done \ failed_creates}
                new_samples == {sample_id(t) : t \in done}
                test_of_request(id) == CHOOSE t \in done : request_id(t) = id
                test_of_sample(id) == CHOOSE t \in done : sample_id(t) = id
            IN
            /\ patients' =
                  [id \in DOMAIN patients \cup new_patients |->
                      IF id \in new_patients
                      THEN [id |-> id, name |-> patient_name, age |-> 0,
                            gender |-> "OTHER", contact_info |-> ""]
                      ELSE patients[id]]
            /\ patient_log' = patient_log \o [i \in 1..k |-> nth_patient_id(i)]
            /\ test_requests' =
                  [id \in DOMAIN test_requests \cup new_requests |->
                      IF id \in new_requests
                      THEN new_test_request(
                              id, nth_patient_id(rank(test_of_request(id))),
                              dialog[s].test_types[test_of_request(id)].id,
                              IF current_user[s] # NoUser
                              THEN current_user[s].username ELSE "System")
                      ELSE test_requests[id]]
            /\ samples' =
                  [id \in DOMAIN samples \cup new_samples |->
                      IF id \in new_samples
                      THEN [id |-> id,
                            test_request_id |-> request_id(test_of_sample(id)),
                            barcode |-> barcode[test_of_sample(id)],
                            status |-> sample_status_map(language[s], status_text)]
                      ELSE samples[id]]
            /\ uuid_counter' = uuid_counter + 2 * k
            /\ IF k = Cardinality(selected_tests)
               THEN /\ message' = [message EXCEPT ![s] = "Success"]  \* Samples added successfully
                    /\ dialog' = [dialog EXCEPT ![s] = NoDialog]
               ELSE /\ message' = [message EXCEPT ![s] = "AllocationExhausted"]  \* the exception leaves save_sample
                    /\ UNCHANGED dialog
            /\ UNCHANGED <<users, test_types, medical_reports>>
    /\ UNCHANGED <<login_state, language, system_name>>

(***************************************************************************)
(* Dashboard: the create-result dialog                                     *)
(***************************************************************************)
\* opens the create-result dialog: patients and test types are listed
create_new_result(s) ==
    /\ nav_buttons[s]["Dashboard"] = NORMAL
    /\ dialog[s] = NoDialog
    /\ dialog' = [dialog EXCEPT ![s] =
                    [kind |-> "create_new_result",
                     patient_map |-> DOMAIN patients,
                     test_map |-> test_types]]
    /\ UNCHANGED <<store, login_state, message, language, system_name>>

\* TestRequest(...) as built by save_result of the create-result dialog
result_test_request(id, patient_id, test_type_id, requested_by) ==
    [id |-> id, patient_id |-> patient_id, test_type_id |-> test_type_id,
     requested_by |-> requested_by, status |-> COMPLETED]

\* patient_name and test_name are the combo box choices, empty when none is made
\* what the patient combo box of the open create-result dialog can hold
PatientChoices(s) ==
    (IF dialog[s].kind = "create_new_result" THEN dialog[s].patient_map ELSE {})
        \cup {<< >>}

save_result(s, patient_name, test_name, content) ==
    /\ dialog[s].kind = "create_new_result"
    /\ patient_name \in dialog[s].patient_map \cup {<< >>}
    /\ test_name \in DOMAIN dialog[s].test_map \cup {""}
    /\ Cardinality(DOMAIN test_requests) < MaxRequests
    /\ uuid_counter + 2 <= MaxUuid
    /\ IF patient_name = << >>
       THEN /\ message' = [message EXCEPT ![s] = "Error"]  \* Please select a patient
            /\ UNCHANGED <<store, dialog>>
       ELSE IF test_name = ""
       THEN /\ message' = [message EXCEPT ![s] = "Error"]  \* Please select a test
            /\ UNCHANGED <<store, dialog>>
       ELSE IF content = ""
       THEN /\ message' = [message EXCEPT ![s] = "Error"]  \* Please enter result content
            /\ UNCHANGED <<store, dialog>>
       ELSE LET test_request ==
                    result_test_request(
                        uuid4_nth(1), patient_name, dialog[s].test_map[test_name].id,
                        IF current_user[s] # NoUser
                        THEN current_user[s].username ELSE "System")
                report ==
                    [id |-> uuid4_nth(2),
                     test_request_id |-> test_request.id,
                     content |-> content,
                     signed_by |-> IF current_user[s] # NoUser
                                   THEN current_user[s].id ELSE "N/A",
                     signed_at |-> "now"]
            IN
            /\ test_requests' = test_requests @@ (test_request.id :> test_request)
            /\ medical_reports' = medical_reports @@ (report.id :> report)
            /\ uuid_counter' = uuid_counter + 2
            /\ message' = [message EXCEPT ![s] = "Success"]  \* Medical result saved successfully
            /\ dialog' = [dialog EXCEPT ![s] = NoDialog]
            /\ UNCHANGED <<users, patients, test_types, samples, patient_log>>
    /\ UNCHANGED <<login_state, language, system_name>>

(***************************************************************************)
(* Results screen and Reports screen: editing, deleting, creating reports  *)
(***************************************************************************)
EditContentInputs == {"", "Hb 13.5 g/dL", "Hb 14.1 g/dL"}

\* the Logout button of the main window pressed while a dialog is open: the
\* grab of the dialog holds back pointer events only, the button can still be
\* reached with the keyboard; the dialog is a Toplevel of the root window and
\* is not among the widgets show_login_screen destroys
logout_dialog_open(s) ==
    /\ current_user[s] # NoUser
    /\ dialog[s] # NoDialog
    /\ current_user' = [current_user EXCEPT ![s] = NoUser]
    /\ nav_buttons' = [nav_buttons EXCEPT ![s] = [b \in NavItems |-> DISABLED]]
    /\ admin_buttons' = [admin_buttons EXCEPT ![s] = [b \in AdminButtons |-> DISABLED]]
    /\ UNCHANGED <<store, dialog, message, language, system_name>>

\* an existing row is overwritten with the object passed
update_medical_report_ok(report) == report.id \in DOMAIN medical_reports

\* a row is removed when it is there
delete_medical_report_ok(report_id) == report_id \in DOMAIN medical_reports

\* opens the edit dialog on the report of the selected row of the results
\* table (Dashboard, View All Results); the dialog holds the object read
edit_result(s, report_id) ==
    /\ nav_buttons[s]["Dashboard"] = NORMAL
    /\ dialog[s] = NoDialog
    /\ IF report_id \notin DOMAIN medical_reports
       THEN /\ message' = [message EXCEPT ![s] = "Error"]  \* Result not found
            /\ UNCHANGED dialog
       ELSE LET selected_report == medical_reports[report_id] IN
            IF selected_report.test_request_id \notin DOMAIN test_requests
            THEN /\ message' = [message EXCEPT ![s] = "Error"]  \* Test request not found
                 /\ UNCHANGED dialog
            ELSE LET test_request == test_requests[selected_report.test_request_id] IN
                 IF test_request.patient_id \notin DOMAIN patients
                 THEN /\ message' = [message EXCEPT ![s] = "Error"]  \* Patient not found
                      /\ UNCHANGED dialog
                 ELSE IF test_request.test_type_id \notin DOMAIN test_types
                 THEN /\ message' = [message EXCEPT ![s] = "Error"]  \* Test type not found
                      /\ UNCHANGED dialog
                 ELSE /\ dialog' = [dialog EXCEPT ![s] =
                                      [kind |-> "edit_result",
                                       selected_report |-> selected_report]]
                      /\ UNCHANGED message
    /\ UNCHANGED <<store, login_state, language, system_name>>

\* save_result of the edit dialog: content, signed_by and signed_at are
\* assigned on the object held by the dialog, then the object is stored
edit_result_save_result(s, content) ==
    /\ dialog[s].kind = "edit_result"
    /\ IF content = ""
       THEN /\ message' = [message EXCEPT ![s] = "Error"]  \* Please enter result content
            /\ UNCHANGED <<store, dialog>>
       ELSE LET selected_report ==
                    [dialog[s].selected_report EXCEPT
                        !.content = content,
                        !.signed_by = IF current_user[s] # NoUser
                                      THEN current_user[s].id ELSE "N/A",
                        !.signed_at = "now"]
            IN
            IF update_medical_report_ok(selected_report)
            THEN /\ medical_reports' =
                       [medical_reports EXCEPT ![selected_report.id] = selected_report]
                 /\ message' = [message EXCEPT ![s] = "Success"]  \* Medical result updated successfully
                 /\ dialog' = [dialog EXCEPT ![s] = NoDialog]
                 /\ UNCHANGED <<users, patients, test_types, test_requests, samples,
                                uuid_counter, patient_log>>
            ELSE /\ message' = [message EXCEPT ![s] = "Error"]  \* Failed to update result
                 /\ dialog' = [dialog EXCEPT ![s].selected_report = selected_report]
                 /\ UNCHANGED store
    /\ UNCHANGED <<login_state, language, system_name>>

\* the selected row of the results table is deleted after the confirmation
delete_result(s, report_id) ==
    /\ nav_buttons[s]["Dashboard"] = NORMAL
    /\ dialog[s] = NoDialog
    /\ IF delete_medical_report_ok(report_id)
       THEN /\ medical_reports' =
                  [id \in DOMAIN medical_reports \ {report_id} |-> medical_reports[id]]
            /\ message' = [message EXCEPT ![s] = "Success"]  \* Result deleted successfully
       ELSE /\ message' = [message EXCEPT ![s] = "Error"]  \* Failed to delete result
            /\ UNCHANGED medical_reports
    /\ UNCHANGED <<users, patients, test_types, test_requests, samples, uuid_counter,
                   patient_log, login_state, dialog, language, system_name>>

\* opens the create-report dialog of the Reports screen
create_report(s) ==
    /\ nav_buttons[s]["Reports"] = NORMAL
    /\ dialog[s] = NoDialog
    /\ dialog' = [dialog EXCEPT ![s] = [kind |-> "create_report"]]
    /\ UNCHANGED <<store, login_state, message, language, system_name>>

\* save_report: the test request id is the text typed into the entry
save_report(s, request_id, content) ==
    /\ dialog[s].kind = "create_report"
    /\ Cardinality(DOMAIN medical_reports) < MaxReports
    /\ uuid_counter < MaxUuid
    /\ IF request_id = ""
       THEN /\ message' = [message EXCEPT ![s] = "Error"]  \* Please enter test request ID
            /\ UNCHANGED <<store, dialog>>
       ELSE IF content = ""
       THEN /\ message' = [message EXCEPT ![s] = "Error"]  \* Please enter report content
            /\ UNCHANGED <<store, dialog>>
       ELSE LET report ==
                    [id |-> uuid4,
                     test_request_id |-> request_id,
                     content |-> content,
                     signed_by |-> IF current_user[s] # NoUser
                                   THEN current_user[s].id ELSE "N/A",
                     signed_at |-> "now"]
            IN
            /\ medical_reports' = medical_reports @@ (report.id :> report)
            /\ uuid_counter' = uuid_counter + 1
            /\ message' = [message EXCEPT ![s] = "Success"]  \* Report created successfully
            /\ dialog' = [dialog EXCEPT ![s] = NoDialog]
            /\ UNCHANGED <<users, patients, test_types, test_requests, samples,
                           patient_log>>
    /\ UNCHANGED <<login_state, language, system_name>>

(***************************************************************************)
(* Samples screen: the update-status dialog                                *)
(***************************************************************************)
\* id[:8], the text of the id column of the samples table: the first eight
\* of the 36 characters of a uuid
ShortIdPool ==
    <<"id8-01", "id8-02", "id8-03", "id8-04", "id8-05", "id8-06", "id8-07",
      "id8-08", "id8-09", "id8-10", "id8-11", "id8-12", "id8-13", "id8-14",
      "id8-15", "id8-16">>

short_id(id) == ShortIdPool[UuidIndex(id)]

\* SampleStatus.<member>.value
SampleStatusValue(status) ==
    CASE status = COLLECTED -> "Collected"
      [] status = PROCESSING -> "Processing"
      [] status = COMPLETED -> "Completed"

\* the samples the store finds for the text of the id column
get_sample_by_id(sample_id) ==
    {id \in DOMAIN samples : short_id(id) = sample_id}

\* the status of an existing row is overwritten
update_sample_status_ok(sample_id) == sample_id \in DOMAIN samples

\* Update Status on the selected row: the sample is looked up with the text of
\* its id column; found is what the store returns, "" when it returns nothing
update_sample_status(s, sample_id, found) ==
    /\ nav_buttons[s]["Samples"] = NORMAL
    /\ dialog[s] = NoDialog
    /\ found \in get_sample_by_id(sample_id) \cup {""}
    /\ IF found = ""
       THEN /\ message' = [message EXCEPT ![s] = "Error"]  \* Sample not found
            /\ UNCHANGED dialog
       ELSE /\ dialog' = [dialog EXCEPT ![s] =
                            [kind |-> "update_sample_status",
                             sample |-> samples[found],
                             status_var |->
                                Translate(language[s],
                                          SampleStatusValue(samples[found].status))]]
            /\ UNCHANGED message
    /\ UNCHANGED <<store, login_state, language, system_name>>

\* the user picks a value of the status combo box of the update dialog
sample_status_combo_select(s, status_text) ==
    /\ dialog[s].kind = "update_sample_status"
    /\ status_text \in {Translate(language[s], "Collected"),
                        Translate(language[s], "Processing"),
                        Translate(language[s], "Completed")}
    /\ dialog[s].status_var # status_text
    /\ dialog' = [dialog EXCEPT ![s].status_var = status_text]
    /\ UNCHANGED <<store, login_state, message, language, system_name>>

update_status_forward_only(s) ==
    /\ dialog[s].kind = "update_sample_status"
    /\ LET status == sample_status_map(language[s], dialog[s].status_var)
           sample == dialog[s].sample
           rank == [x \in SampleStatus |->
                       CASE x = COLLECTED -> 1 [] x = PROCESSING -> 2 [] OTHER -> 3]
       IN
       IF update_sample_status_ok(sample.id)
          /\ rank[samples[sample.id].status] <= rank[status]
       THEN /\ samples' = [samples EXCEPT ![sample.id].status = status]
            /\ message' = [message EXCEPT ![s] = "Success"]
            /\ dialog' = [dialog EXCEPT ![s] = NoDialog]
            /\ UNCHANGED <<users, patients, test_types, test_requests,
                           medical_reports, uuid_counter, patient_log>>
       ELSE /\ message' = [message EXCEPT ![s] = "Error"]
            /\ UNCHANGED <<store, dialog>>
    /\ UNCHANGED <<login_state, language, system_name>>

update_status_completes_request(s) ==
    /\ dialog[s].kind = "update_sample_status"
    /\ LET status == sample_status_map(language[s], dialog[s].status_var)
           sample == dialog[s].sample
       IN
       IF update_sample_status_ok(sample.id)
       THEN /\ samples' = [samples EXCEPT ![sample.id].status = status]
            /\ test_requests' =
                  [id \in DOMAIN test_requests |->
                      IF id = sample.test_request_id /\ status = COMPLETED
                      THEN [test_requests[id] EXCEPT !.status = COMPLETED]
                      ELSE test_requests[id]]
            /\ message' = [message EXCEPT ![s] = "Success"]
            /\ dialog' = [dialog EXCEPT ![s] = NoDialog]
            /\ UNCHANGED <<users, patients, test_types, medical_reports,
                           uuid_counter, patient_log>>
       ELSE /\ message' = [message EXCEPT ![s] = "Error"]
            /\ UNCHANGED <<store, dialog>>
    /\ UNCHANGED <<login_state, language, system_name>>

\* update_status of the update dialog: the status chosen is stored for the
\* sample the dialog was opened on
update_status(s) ==
    /\ dialog[s].kind = "update_sample_status"
    /\ LET status == sample_status_map(language[s], dialog[s].status_var)
           sample == dialog[s].sample
       IN
       IF update_sample_status_ok(sample.id)
       THEN /\ samples' = [samples EXCEPT ![sample.id].status = status]
            /\ message' = [message EXCEPT ![s] = "Success"]  \* Sample status updated successfully
            /\ dialog' = [dialog EXCEPT ![s] = NoDialog]
            /\ UNCHANGED <<users, patients, test_types, test_requests,
                           medical_reports, uuid_counter, patient_log>>
       ELSE /\ message' = [message EXCEPT ![s] = "Error"]  \* Failed to update sample status
            /\ UNCHANGED <<store, dialog>>
    /\ UNCHANGED <<login_state, language, system_name>>

(***************************************************************************)
(* Patients screen: the edit-patient dialog                                *)
(***************************************************************************)
\* a patient row is rewritten when the row exists
update_patient_ok(patient) == patient.id \in DOMAIN patients

\* opens the edit dialog for the selected row; the row carries the full id
edit_patient(s, patient_id) ==
    /\ nav_buttons[s]["Patients"] = NORMAL
    /\ dialog[s] = NoDialog
    /\ IF patient_id \notin DOMAIN patients
       THEN /\ message' = [message EXCEPT ![s] = "Error"]  \* Patient not found
            /\ UNCHANGED dialog
       ELSE /\ dialog' = [dialog EXCEPT ![s] =
                            [kind |-> "edit_patient", patient |-> patients[patient_id]]]
            /\ UNCHANGED message
    /\ UNCHANGED <<store, login_state, language, system_name>>

\* save_patient of the edit-patient dialog
edit_patient_save_patient(s, name, age_str, gender_text) ==
    /\ dialog[s].kind = "edit_patient"
    /\ IF name = ""
       THEN /\ message' = [message EXCEPT ![s] = "Error"]  \* Please enter patient name
            /\ UNCHANGED <<store, dialog>>
       ELSE IF parse_age(age_str) < 0 \/ parse_age(age_str) > 150
       THEN /\ message' = [message EXCEPT ![s] = "Error"]  \* Please enter a valid age
            /\ UNCHANGED <<store, dialog>>
       ELSE IF gender_text = ""
       THEN /\ message' = [message EXCEPT ![s] = "Error"]  \* Please select gender
            /\ UNCHANGED <<store, dialog>>
       ELSE LET patient == [dialog[s].patient EXCEPT
                               !.name = name,
                               !.age = parse_age(age_str),
                               !.gender = gender_map(language[s], gender_text)]
            IN
            IF update_patient_ok(patient)
            THEN /\ patients' = [patients EXCEPT ![patient.id] = patient]
                 /\ message' = [message EXCEPT ![s] = "Success"]  \* Patient updated successfully
                 /\ dialog' = [dialog EXCEPT ![s] = NoDialog]
                 /\ UNCHANGED <<users, test_types, test_requests, samples,
                                medical_reports, uuid_counter, patient_log>>
            ELSE /\ message' = [message EXCEPT ![s] = "Error"]  \* Failed to update patient
                 /\ UNCHANGED <<store, dialog>>
    /\ UNCHANGED <<login_state, language, system_name>>

(***************************************************************************)
(* Tests screen: adding and editing test types                             *)
(***************************************************************************)
TestNameInputs == {"", "Ferritin", "Ferritin (serum)"}
CategoryInputs == {"", "Blood"}
PriceInputs == {"", "50", "-5", "abc", "nan"}

\* the float that is not a number, kept as a number no price is given as
NaN == 0 - 1000000

\* x < y and x >= y on floats: every comparison with NaN is false
float_lt(x, y) == x # NaN /\ y # NaN /\ x < y
float_ge(x, y) == x # NaN /\ y # NaN /\ x >= y

\* whether float(price_str) returns a float rather than raising ValueError
float_ok(price_str) == price_str \in {"50", "-5", "nan"}

\* float(price_str) where it returns
float(price_str) ==
    CASE price_str = "50" -> 50
      [] price_str = "-5" -> 0 - 5
      [] price_str = "nan" -> NaN
      [] OTHER -> 0

\* a number as zero-padded text of the width of a test id
test_id_text(n) ==
    IF n < 10 THEN "00" \o ToString(n)
    ELSE IF n < 100 THEN "0" \o ToString(n)
    ELSE ToString(n)

\* the sequential test ids and the numbers they stand for
TestIdTable == [n \in 0..max_id(TestIdWidth) |-> test_id_text(n)]

TestIdSet == {TestIdTable[n] : n \in DOMAIN TestIdTable}

TestIdNumber == [id \in TestIdSet |-> CHOOSE n \in DOMAIN TestIdTable : TestIdTable[n] = id]

\* three decimal digits
is_sequential_test_id(id) == id \in TestIdSet

\* int(id) of a sequential test id
test_id_number(id) == TestIdNumber[id]

\* the current maximum of the sequential test ids held by the store
max_test_id(stored) ==
    max_of({test_id_number(id) :
               id \in {i \in DOMAIN stored : is_sequential_test_id(i)}})

\* the smallest value above the current maximum, zero-padded; the allocation
\* fails when that value does not fit the fixed width
get_next_test_id(stored) ==
    IF max_test_id(stored) + 1 > max_id(TestIdWidth)
    THEN "AllocationExhausted"
    ELSE test_id_text(max_test_id(stored) + 1)

\* a test type row is inserted unless its id is already taken
create_test_type_ok(test_type) == test_type.id \notin DOMAIN test_types

\* a test type row is rewritten when the row exists
update_test_type_ok(test_type) == test_type.id \in DOMAIN test_types

\* opens the add-test dialog
add_test(s) ==
    /\ nav_buttons[s]["Tests"] = NORMAL
    /\ dialog[s] = NoDialog
    /\ dialog' = [dialog EXCEPT ![s] = [kind |-> "add_test"]]
    /\ UNCHANGED <<store, login_state, message, language, system_name>>

\* save_test inserting the row before the price is checked
save_test_create_before_validation(s, name, category, price_str) ==
    /\ dialog[s].kind = "add_test"
    /\ Cardinality(DOMAIN test_types) < MaxTestTypes
    /\ IF name = ""
       THEN /\ message' = [message EXCEPT ![s] = "Error"]
            /\ UNCHANGED <<store, dialog>>
       ELSE IF category = ""
       THEN /\ message' = [message EXCEPT ![s] = "Error"]
            /\ UNCHANGED <<store, dialog>>
       ELSE IF get_next_test_id(test_types) = "AllocationExhausted"
       THEN /\ message' = [message EXCEPT ![s] = "AllocationExhausted"]
            /\ UNCHANGED <<store, dialog>>
       ELSE LET test_type == [id |-> get_next_test_id(test_types), name |-> name,
                              price |-> float(price_str), category |-> category]
            IN
            /\ test_types' = test_types @@ (test_type.id :> test_type)
            /\ UNCHANGED <<users, patients, test_requests, samples,
                           medical_reports, uuid_counter, patient_log>>
            /\ IF ~float_ok(price_str) \/ float_lt(float(price_str), 0)
               THEN /\ message' = [message EXCEPT ![s] = "Error"]
                    /\ UNCHANGED dialog
               ELSE /\ message' = [message EXCEPT ![s] = "Success"]
                    /\ dialog' = [dialog EXCEPT ![s] = NoDialog]
    /\ UNCHANGED <<login_state, language, system_name>>

\* save_test going on with the number above the maximum when the allocation fails
save_test_ignore_exhaustion(s, name, category, price_str) ==
    /\ dialog[s].kind = "add_test"
    /\ Cardinality(DOMAIN test_types) < MaxTestTypes
    /\ IF name = ""
       THEN /\ message' = [message EXCEPT ![s] = "Error"]
            /\ UNCHANGED <<store, dialog>>
       ELSE IF category = ""
       THEN /\ message' = [message EXCEPT ![s] = "Error"]
            /\ UNCHANGED <<store, dialog>>
       ELSE IF ~float_ok(price_str) \/ float_lt(float(price_str), 0)
       THEN /\ message' = [message EXCEPT ![s] = "Error"]
            /\ UNCHANGED <<store, dialog>>
       ELSE LET test_type == [id |-> test_id_text(max_test_id(test_types) + 1),
                              name |-> name, price |-> float(price_str),
                              category |-> category]
            IN
            /\ test_types' = test_types @@ (test_type.id :> test_type)
            /\ message' = [message EXCEPT ![s] = "Success"]
            /\ dialog' = [dialog EXCEPT ![s] = NoDialog]
            /\ UNCHANGED <<users, patients, test_requests, samples,
                           medical_reports, uuid_counter, patient_log>>
    /\ UNCHANGED <<login_state, language, system_name>>

\* save_test of the add-test dialog
save_test(s, name, category, price_str) ==
    /\ dialog[s].kind = "add_test"
    /\ Cardinality(DOMAIN test_types) < MaxTestTypes
    /\ IF name = ""
       THEN /\ message' = [message EXCEPT ![s] = "Error"]  \* Please enter test name
            /\ UNCHANGED <<store, dialog>>
       ELSE IF category = ""
       THEN /\ message' = [message EXCEPT ![s] = "Error"]  \* Please enter category
            /\ UNCHANGED <<store, dialog>>
       ELSE IF ~float_ok(price_str) \/ float_lt(float(price_str), 0)
       THEN /\ message' = [message EXCEPT ![s] = "Error"]  \* Please enter a valid price
            /\ UNCHANGED <<store, dialog>>
       ELSE IF get_next_test_id(test_types) = "AllocationExhausted"
       THEN /\ message' = [message EXCEPT ![s] = "AllocationExhausted"]  \* the exception leaves save_test
            /\ UNCHANGED <<store, dialog>>
       ELSE LET test_type == [id |-> get_next_test_id(test_types), name |-> name,
                              price |-> float(price_str), category |-> category]
            IN
            IF create_test_type_ok(test_type)
            THEN /\ test_types' = test_types @@ (test_type.id :> test_type)
                 /\ message' = [message EXCEPT ![s] = "Success"]  \* Test added successfully
                 /\ dialog' = [dialog EXCEPT ![s] = NoDialog]
                 /\ UNCHANGED <<users, patients, test_requests, samples,
                                medical_reports, uuid_counter, patient_log>>
            ELSE /\ message' = [message EXCEPT ![s] = "Error"]  \* Failed to add test
                 /\ UNCHANGED <<store, dialog>>
    /\ UNCHANGED <<login_state, language, system_name>>

\* t.id.startswith(test_id) or t.id[:8] == test_id, for test_id the full id a
\* row carries.  A uuid4 value is 32 random hexadecimal digits: the fourth
\* value of the pool is taken to have been drawn with the leading digits 001,
\* the others to begin with a letter, so that one opaque id of the store
\* begins with a sequential id
startswith(id, test_id) ==
    \/ id = test_id
    \/ id = UuidPool[4] /\ test_id = test_id_text(1)

\* the test types found by the beginning of their id
found_by_prefix(test_id) == {id \in DOMAIN test_types : startswith(id, test_id)}

\* opens the edit dialog for the selected row; the row carries the full id, and
\* a test type is looked up by the beginning of its id when the lookup by id
\* finds nothing
edit_test(s, test_id) ==
    /\ nav_buttons[s]["Tests"] = NORMAL
    /\ dialog[s] = NoDialog
    /\ LET found == IF test_id \in DOMAIN test_types THEN {test_id}
                    ELSE found_by_prefix(test_id)
       IN
       IF found = {}
       THEN /\ message' = [message EXCEPT ![s] = "Error"]  \* Test not found
            /\ UNCHANGED dialog
       ELSE /\ \E id \in found :
                  dialog' = [dialog EXCEPT ![s] =
                               [kind |-> "edit_test", test |-> test_types[id]]]
            /\ UNCHANGED message
    /\ UNCHANGED <<store, login_state, language, system_name>>

\* a test type row is removed when the row exists
delete_test_type_ok(test_id) == test_id \in DOMAIN test_types

\* delete_test up to its confirmation box: the id is read from the selected
\* row of the table, which load_tests_data filled from the store
delete_test(s, test_id) ==
    /\ nav_buttons[s]["Tests"] = NORMAL
    /\ dialog[s] = NoDialog
    /\ test_id \in DOMAIN test_types
    /\ dialog' = [dialog EXCEPT ![s] = [kind |-> "confirm_delete_test", test_id |-> test_id]]
    /\ UNCHANGED <<store, login_state, message, language, system_name>>

\* delete_test from the answer yes of its confirmation box
delete_test_confirmed(s) ==
    /\ dialog[s].kind = "confirm_delete_test"
    /\ LET test_id == dialog[s].test_id IN
       IF delete_test_type_ok(test_id)
       THEN /\ test_types' = [id \in DOMAIN test_types \ {test_id} |-> test_types[id]]
            /\ message' = [message EXCEPT ![s] = "Success"]  \* Test deleted successfully
       ELSE IF found_by_prefix(test_id) # {}
       THEN \* the first test type of get_all_test_types that matches
            /\ \E full_test \in found_by_prefix(test_id) :
                  test_types' = [id \in DOMAIN test_types \ {full_test} |-> test_types[id]]
            /\ message' = [message EXCEPT ![s] = "Success"]  \* Test deleted successfully
       ELSE /\ message' = [message EXCEPT ![s] = "Error"]  \* Failed to delete test
            /\ UNCHANGED test_types
    /\ dialog' = [dialog EXCEPT ![s] = NoDialog]
    /\ UNCHANGED <<users, patients, test_requests, samples, medical_reports,
                   uuid_counter, patient_log, login_state, language, system_name>>

\* save_test of the edit-test dialog
edit_test_save_test(s, name, category, price_str) ==
    /\ dialog[s].kind = "edit_test"
    /\ IF name = ""
       THEN /\ message' = [message EXCEPT ![s] = "Error"]  \* Please enter a test name
            /\ UNCHANGED <<store, dialog>>
       ELSE IF category = ""
       THEN /\ message' = [message EXCEPT ![s] = "Error"]  \* Please select a category
            /\ UNCHANGED <<store, dialog>>
       ELSE IF price_str = ""
       THEN /\ message' = [message EXCEPT ![s] = "Error"]  \* Please enter a price
            /\ UNCHANGED <<store, dialog>>
       ELSE IF ~float_ok(price_str)
       THEN /\ message' = [message EXCEPT ![s] = "Error"]  \* Price must be a number
            /\ UNCHANGED <<store, dialog>>
       ELSE IF float_lt(float(price_str), 0)
       THEN /\ message' = [message EXCEPT ![s] = "Error"]  \* Price cannot be negative
            /\ UNCHANGED <<store, dialog>>
       ELSE LET test == [dialog[s].test EXCEPT
                            !.name = name,
                            !.category = category,
                            !.price = float(price_str)]
            IN
            IF update_test_type_ok(test)
            THEN /\ test_types' = [test_types EXCEPT ![test.id] = test]
                 /\ message' = [message EXCEPT ![s] = "Success"]  \* Test updated successfully
                 /\ dialog' = [dialog EXCEPT ![s] = NoDialog]
                 /\ UNCHANGED <<users, patients, test_requests, samples,
                                medical_reports, uuid_counter, patient_log>>
            ELSE /\ message' = [message EXCEPT ![s] = "Error"]  \* Failed to update test
                 /\ UNCHANGED <<store, dialog>>
    /\ UNCHANGED <<login_state, language, system_name>>

(***************************************************************************)
(* Header: the language selector                                           *)
(***************************************************************************)
Languages == {"en", "ar"}

\* change_language followed by on_language_change: the texts of the main
\* window are set again in the language chosen, the title among them
change_language(s, lang) ==
    /\ dialog[s] = NoDialog
    /\ language' = [language EXCEPT ![s] = lang]
    /\ system_name' = [system_name EXCEPT ![s] = Translate(lang, SystemName)]
    /\ UNCHANGED <<store, login_state, dialog, message>>

(***************************************************************************)
(* Header: the three buttons of the administrator                          *)
(***************************************************************************)
SystemNameInputs == {"", "City Lab"}
PasswordFieldInputs == {"", "admin123", "secret1", "abc"}

\* the System Name button: the dialog opens for an administrator only
edit_system_name(s) ==
    /\ admin_buttons[s]["edit_system_name_btn"] = NORMAL
    /\ dialog[s] = NoDialog
    /\ IF current_user[s] = NoUser \/ current_user[s].role # ADMIN
       THEN /\ message' = [message EXCEPT ![s] = "Error"]  \* Only administrators can modify the system name
            /\ UNCHANGED dialog
       ELSE /\ dialog' = [dialog EXCEPT ![s] = [kind |-> "edit_system_name"]]
            /\ UNCHANGED message
    /\ UNCHANGED <<store, login_state, language, system_name>>

\* save_system_name of the dialog
save_system_name(s, new_name) ==
    /\ dialog[s].kind = "edit_system_name"
    /\ IF new_name = ""
       THEN /\ message' = [message EXCEPT ![s] = "Error"]  \* Please enter a system name
            /\ UNCHANGED <<dialog, system_name>>
       ELSE /\ system_name' = [system_name EXCEPT ![s] = new_name]
            /\ message' = [message EXCEPT ![s] = "Success"]  \* System name updated successfully
            /\ dialog' = [dialog EXCEPT ![s] = NoDialog]
    /\ UNCHANGED <<store, login_state, language>>

\* the Server button: the dialog opens for an administrator only
show_server_connection(s) ==
    /\ admin_buttons[s]["server_icon_btn"] = NORMAL
    /\ dialog[s] = NoDialog
    /\ IF current_user[s] = NoUser \/ current_user[s].role # ADMIN
       THEN /\ message' = [message EXCEPT ![s] = "Error"]  \* Access denied. Admin privileges required.
            /\ UNCHANGED dialog
       ELSE /\ dialog' = [dialog EXCEPT ![s] = [kind |-> "server_connection"]]
            /\ UNCHANGED message
    /\ UNCHANGED <<store, login_state, language, system_name>>

\* the Change Password button: the dialog opens for an administrator only
change_admin_password(s) ==
    /\ admin_buttons[s]["change_password_btn"] = NORMAL
    /\ dialog[s] = NoDialog
    /\ IF current_user[s] = NoUser \/ current_user[s].role # ADMIN
       THEN /\ message' = [message EXCEPT ![s] = "Error"]  \* Access denied. Admin privileges required.
            /\ UNCHANGED dialog
       ELSE /\ dialog' = [dialog EXCEPT ![s] = [kind |-> "change_password"]]
            /\ UNCHANGED message
    /\ UNCHANGED <<store, login_state, language, system_name>>

\* a user row is rewritten when the row exists and the store takes the write
update_user_ok(user, store_writes) == user.id \in DOMAIN users /\ store_writes

\* save_password of the dialog; store_writes tells whether db.update_user
\* stores the row and returns True, or stores nothing and returns False
save_password(s, current_password, new_password, confirm_password, store_writes) ==
    /\ dialog[s].kind = "change_password"
    /\ IF current_password = "" \/ new_password = "" \/ confirm_password = ""
       THEN /\ message' = [message EXCEPT ![s] = "Error"]  \* Please fill in all password fields
            /\ UNCHANGED <<users, current_user, dialog>>
       ELSE IF new_password # confirm_password
       THEN /\ message' = [message EXCEPT ![s] = "Error"]  \* New passwords do not match
            /\ UNCHANGED <<users, current_user, dialog>>
       ELSE IF Len(new_password) < MinPasswordLength
       THEN /\ message' = [message EXCEPT ![s] = "Error"]  \* Password must be at least 6 characters long
            /\ UNCHANGED <<users, current_user, dialog>>
       ELSE IF current_user[s] = NoUser
       THEN /\ message' = [message EXCEPT ![s] = "AttributeError"]  \* None has no password_hash
            /\ UNCHANGED <<users, current_user, dialog>>
       ELSE IF hash_password(current_password) # current_user[s].password_hash
       THEN /\ message' = [message EXCEPT ![s] = "Error"]  \* Current password is incorrect
            /\ UNCHANGED <<users, current_user, dialog>>
       ELSE LET user == [current_user[s] EXCEPT
                            !.password_hash = hash_password(new_password)]
            IN
            /\ current_user' = [current_user EXCEPT ![s] = user]
            /\ IF update_user_ok(user, store_writes)
               THEN /\ users' = [users EXCEPT ![user.id] = user]
                    /\ message' = [message EXCEPT ![s] = "Success"]  \* Password changed successfully
                    /\ dialog' = [dialog EXCEPT ![s] = NoDialog]
               ELSE /\ message' = [message EXCEPT ![s] = "Error"]  \* Failed to change password
                    /\ UNCHANGED <<users, dialog>>
    /\ UNCHANGED <<patients, test_types, test_requests, samples, medical_reports,
                   uuid_counter, patient_log, nav_buttons, admin_buttons, language,
                   system_name>>

(***************************************************************************)
(* Initial state: __init__ followed by load_initial_data on an empty store *)
(***************************************************************************)
admin_user ==
    [id |-> "uuid-01", username |-> "admin", email |-> "admin@lab.com",
     password_hash |-> hash_password("admin123"), role |-> ADMIN,
     is_active |-> TRUE, permissions |-> {}]

sample_tests ==
    ("uuid-02" :> [id |-> "uuid-02", name |-> "Complete Blood Count", price |-> 50,
                   category |-> "Blood"])
    @@ ("uuid-03" :> [id |-> "uuid-03", name |-> "Urinalysis", price |-> 30,
                      category |-> "Urine"])
    @@ ("uuid-04" :> [id |-> "uuid-04", name |-> "Stool Analysis", price |-> 40,
                      category |-> "Stool"])
    @@ ("uuid-05" :> [id |-> "uuid-05", name |-> "X-Ray Chest", price |-> 100,
                      category |-> "Radiology"])

\* the process of a session starts again: __init__ builds a fresh window and
\* load_initial_data seeds the store where the admin or the test types are missing
load_initial_data(s) ==
    /\ uuid_counter + 5 <= MaxUuid \/ (get_user_by_username("admin") # {} /\ DOMAIN test_types # {})
    /\ LET seeds_admin == get_user_by_username("admin") = {}
           seeds_tests == DOMAIN test_types = {}
           admin == [admin_user EXCEPT !.id = uuid4]
           first == IF seeds_admin THEN 2 ELSE 1
           new_tests == {uuid4_nth(first + i) : i \in 0..3}
           template(id) ==
               sample_tests[CHOOSE old \in DOMAIN sample_tests :
                               UuidIndex(old) - 2 = UuidIndex(id) - UuidIndex(uuid4_nth(first))]
       IN
       /\ users' = IF seeds_admin /\ create_user_ok(admin)
                   THEN users @@ (admin.id :> admin) ELSE users
       /\ test_types' = IF seeds_tests
                        THEN [id \in new_tests |-> [template(id) EXCEPT !.id = id]]
                        ELSE test_types
       /\ uuid_counter' = uuid_counter + (IF seeds_admin THEN 1 ELSE 0)
                                       + (IF seeds_tests THEN 4 ELSE 0)
    /\ current_user' = [current_user EXCEPT ![s] = NoUser]
    /\ nav_buttons' = [nav_buttons EXCEPT ![s] = [b \in NavItems |-> DISABLED]]
    /\ admin_buttons' = [admin_buttons EXCEPT ![s] = [b \in AdminButtons |-> DISABLED]]
    /\ dialog' = [dialog EXCEPT ![s] = NoDialog]
    /\ message' = [message EXCEPT ![s] = ""]
    /\ system_name' = [system_name EXCEPT ![s] = SystemName]
    /\ UNCHANGED <<patients, test_requests, samples, medical_reports, patient_log,
                   language>>

Init ==
    /\ users = ("uuid-01" :> admin_user)
    /\ patients = << >>
    /\ test_types = sample_tests
    /\ test_requests = << >>
    /\ samples = << >>
    /\ medical_reports = << >>
    /\ uuid_counter = 5
    /\ patient_log = << >>
    /\ current_user = [s \in Sessions |-> NoUser]
    /\ nav_buttons = [s \in Sessions |-> [b \in NavItems |-> DISABLED]]
    /\ admin_buttons = [s \in Sessions |-> [b \in AdminButtons |-> DISABLED]]
    /\ dialog = [s \in Sessions |-> NoDialog]
    /\ message = [s \in Sessions |-> ""]
    /\ language = [s \in Sessions |-> "en"]
    /\ system_name = [s \in Sessions |-> SystemName]

(***************************************************************************)
(* Access control: one session working on the users                        *)
(***************************************************************************)
NextAuth ==
    \/ \E username \in UsernameInputs, password \in PasswordInputs :
          login("s1", username, password)
    \/ logout("s1")
    \/ \E username \in UsernameInputs, email \in EmailInputs,
          password \in NewPasswordInputs, role_text \in RoleTextInputs,
          is_active \in BOOLEAN, selected_permissions \in PermissionInputs :
          add_user_save_user("s1", username, email, password, role_text,
                             is_active, selected_permissions)
    \/ edit_user("s1")

SpecAuth == Init /\ [][NextAuth]_vars

(***************************************************************************)
(* Patient ids: two sessions adding and deleting patients in one store     *)
(***************************************************************************)
NextIds ==
    \/ \E s \in Sessions : login(s, "admin", "admin123")
    \/ \E s \in Sessions : logout(s)
    \/ \E s \in Sessions, name \in NameInputs, age_str \in AgeInputs,
          gender_text \in GenderTextInputs :
          save_patient_generate(s, name, age_str, gender_text)
    \/ \E s \in Sessions : save_patient_create(s)
    \/ \E s \in Sessions, patient_id \in DOMAIN patients : delete_patient(s, patient_id)
    \/ add_sample("s1")
    \/ \E patient_name \in NameInputs, selected_tests \in SUBSET TestChoices,
          status_text \in {"Collected"} :
          \E barcode \in [selected_tests -> {"BC-A"}] :
             save_sample("s1", patient_name, selected_tests, status_text, barcode, {})
    \/ close_dialog("s1")

SpecIds == Init /\ [][NextIds]_vars

(***************************************************************************)
(* Test workflow: session s1 requests tests for patients and edits the     *)
(* requests while session s2 may delete patients from the same store       *)
(***************************************************************************)
NextWorkflow ==
    \/ \E s \in Sessions : login(s, "admin", "admin123")
    \/ logout("s1")
    \/ \E name \in NameInputs, age_str \in AgeInputs, gender_text \in GenderTextInputs :
          save_patient_generate("s1", name, age_str, gender_text)
    \/ save_patient_create("s1")
    \/ \E s \in Sessions, patient_id \in DOMAIN patients : delete_patient(s, patient_id)
    \/ \E patient_id \in DOMAIN patients : request_test_for_patient("s1", patient_id)
    \/ \E selected_indices \in SUBSET TestChoices, requested_by \in RequestedByInputs :
          save_test_requests("s1", selected_indices, requested_by, {})
    \/ \E patient_id \in DOMAIN patients : view_patient_test_requests("s1", patient_id)
    \/ \E request_id \in DOMAIN test_requests : edit_test_request("s1", request_id)
    \/ \E status_text \in StatusComboValues("en") : status_combo_select("s1", status_text)
    \/ \E requested_by \in RequestedByInputs : save_changes("s1", requested_by, TRUE)
    \/ close_dialog("s1")

SpecWorkflow == Init /\ [][NextWorkflow]_vars

(***************************************************************************)
(* Creation of test requests: the three dialogs of session s1 that persist *)
(* a TestRequest                                                           *)
(***************************************************************************)
NextCreate ==
    \/ login("s1", "admin", "admin123")
    \/ logout("s1")
    \/ \E name \in NameInputs, age_str \in AgeInputs, gender_text \in GenderTextInputs :
          save_patient_generate("s1", name, age_str, gender_text)
    \/ save_patient_create("s1")
    \/ \E patient_id \in DOMAIN patients : request_test_for_patient("s1", patient_id)
    \/ \E selected_indices \in SUBSET TestChoices, requested_by \in RequestedByInputs :
          save_test_requests("s1", selected_indices, requested_by, {})
    \/ close_dialog("s1")
    \/ add_sample("s1")
    \/ \E patient_name \in NameInputs, selected_tests \in SUBSET TestChoices,
          status_text \in SampleStatusTextInputs :
          \E barcode \in [selected_tests -> Barcodes] :
             save_sample("s1", patient_name, selected_tests, status_text, barcode, {})
    \/ create_new_result("s1")
    \/ \E patient_name \in PatientChoices("s1"),
          test_name \in TestChoices \cup {""}, content \in ContentInputs :
          save_result("s1", patient_name, test_name, content)

SpecCreate == Init /\ [][NextCreate]_vars

(***************************************************************************)
(* Results: two users of one session create, edit and delete results       *)
(***************************************************************************)
RequestIdInputs == {"", "REQ-404"}

NextResults ==
    \/ \E username \in {"admin", "tech"}, password \in {"admin123", "secret1"} :
          login("s1", username, password)
    \/ logout("s1")
    \/ add_user_save_user("s1", "tech", "user@lab.com", "secret1", "Technician", TRUE, {})
    \/ save_patient_generate("s1", "Jane Doe", "34", "Female")
    \/ save_patient_create("s1")
    \/ create_new_result("s1")
    \/ \E patient_name \in PatientChoices("s1"), content \in ContentInputs :
          save_result("s1", patient_name, "uuid-02", content)
    \/ \E report_id \in DOMAIN medical_reports : edit_result("s1", report_id)
    \/ \E content \in EditContentInputs : edit_result_save_result("s1", content)
    \/ \E report_id \in DOMAIN medical_reports : delete_result("s1", report_id)
    \/ close_dialog("s1")

SpecResults == Init /\ [][NextResults]_vars

(***************************************************************************)
(* Reports: one session creates and edits reports; the Logout button stays *)
(* within reach of the keyboard while a dialog is open                     *)
(***************************************************************************)
NextReport ==
    \/ login("s1", "admin", "admin123")
    \/ logout("s1")
    \/ logout_dialog_open("s1")
    \/ save_patient_generate("s1", "Jane Doe", "34", "Female")
    \/ save_patient_create("s1")
    \/ create_new_result("s1")
    \/ \E patient_name \in PatientChoices("s1"), content \in ContentInputs :
          save_result("s1", patient_name, "uuid-02", content)
    \/ create_report("s1")
    \/ \E request_id \in DOMAIN test_requests \cup RequestIdInputs,
          content \in ContentInputs :
          save_report("s1", request_id, content)
    \/ \E report_id \in DOMAIN medical_reports : edit_result("s1", report_id)
    \/ \E content \in EditContentInputs : edit_result_save_result("s1", content)
    \/ \E report_id \in DOMAIN medical_reports : delete_result("s1", report_id)
    \/ close_dialog("s1")

SpecReport == Init /\ [][NextReport]_vars

(***************************************************************************)
(* Samples: one session adds samples, updates their status and edits the   *)
(* test requests they belong to                                            *)
(***************************************************************************)
NextSample ==
    \/ login("s1", "admin", "admin123")
    \/ logout("s1")
    \/ add_sample("s1")
    \/ \E selected_tests \in SUBSET TestChoices :
          \E barcode \in [selected_tests -> {"BC-A"}] :
             save_sample("s1", "Jane Doe", selected_tests, "Processing", barcode, {})
    \/ \E id \in DOMAIN samples, found \in DOMAIN samples \cup {""} :
          update_sample_status("s1", short_id(id), found)
    \/ \E status_text \in SampleStatusTextInputs :
          sample_status_combo_select("s1", status_text)
    \/ update_status("s1")
    \/ \E patient_id \in DOMAIN patients : view_patient_test_requests("s1", patient_id)
    \/ \E request_id \in DOMAIN test_requests : edit_test_request("s1", request_id)
    \/ \E status_text \in StatusComboValues("en") : status_combo_select("s1", status_text)
    \/ save_changes("s1", "admin", TRUE)
    \/ close_dialog("s1")

SpecSample == Init /\ [][NextSample]_vars

(***************************************************************************)
(* Batch requests: one session requests several tests for a patient while  *)
(* the store may refuse single rows                                        *)
(***************************************************************************)
NextBatch ==
    \/ login("s1", "admin", "admin123")
    \/ logout("s1")
    \/ \E name \in NameInputs, age_str \in AgeInputs, gender_text \in GenderTextInputs :
          save_patient_generate("s1", name, age_str, gender_text)
    \/ save_patient_create("s1")
    \/ \E patient_id \in DOMAIN patients : request_test_for_patient("s1", patient_id)
    \/ \E selected_indices \in SUBSET TestChoices, requested_by \in RequestedByInputs :
          \E failed_creates \in SUBSET selected_indices :
             save_test_requests("s1", selected_indices, requested_by, failed_creates)
    \/ close_dialog("s1")

SpecBatch == Init /\ [][NextBatch]_vars

(***************************************************************************)
(* Rejected input: session s1 filling in every dialog that validates.      *)
(* Patients, test types and results are also stored, so that the edit      *)
(* dialogs open; the other dialogs are given input that is rejected, by    *)
(* the handler or by the store                                             *)
(***************************************************************************)
NextValidate ==
    \/ \E password \in PasswordInputs : login("s1", "admin", password)
    \/ logout("s1")
    \/ \E username \in {"", "tech"}, email \in EmailInputs :
          add_user_save_user("s1", username, email, "secret1", "", TRUE, {})
    \/ \E name \in NameInputs, age_str \in AgeInputs, gender_text \in GenderTextInputs :
          save_patient_generate("s1", name, age_str, gender_text)
    \/ save_patient_create("s1")
    \/ \E patient_id \in DOMAIN patients : edit_patient("s1", patient_id)
    \/ \E name \in NameInputs, age_str \in AgeInputs, gender_text \in GenderTextInputs :
          edit_patient_save_patient("s1", name, age_str, gender_text)
    \/ add_test("s1")
    \/ \E name \in TestNameInputs \ {"Ferritin (serum)"}, category \in CategoryInputs,
          price_str \in PriceInputs :
          save_test("s1", name, category, price_str)
    \/ \E test_id \in DOMAIN test_types \ DOMAIN sample_tests : edit_test("s1", test_id)
    \/ \E name \in TestNameInputs \ {"Ferritin"}, category \in CategoryInputs,
          price_str \in PriceInputs :
          edit_test_save_test("s1", name, category, price_str)
    \/ \E patient_id \in DOMAIN patients : request_test_for_patient("s1", patient_id)
    \/ \E selected_indices \in SUBSET {"uuid-02"}, requested_by \in RequestedByInputs :
          save_test_requests("s1", selected_indices, requested_by, selected_indices)
    \/ create_report("s1")
    \/ \E request_id \in RequestIdInputs, content \in ContentInputs :
          /\ request_id = "" \/ content = ""
          /\ save_report("s1", request_id, content)
    \/ create_new_result("s1")
    \/ \E patient_name \in PatientChoices("s1"), test_name \in {"", "uuid-02"},
          content \in ContentInputs :
          save_result("s1", patient_name, test_name, content)
    \/ \E report_id \in DOMAIN medical_reports : edit_result("s1", report_id)
    \/ \E content \in EditContentInputs \ {"Hb 13.5 g/dL"} :
          edit_result_save_result("s1", content)
    \/ add_sample("s1")
    \/ \E patient_name \in NameInputs, status_text \in {"", "Collected"} :
          \E selected_tests \in SUBSET {"uuid-03"} :
             /\ patient_name = "" \/ selected_tests = {} \/ status_text = ""
             /\ save_sample("s1", patient_name, selected_tests, status_text,
                            [t \in selected_tests |-> "BC-A"], {})
    \/ close_dialog("s1")

SpecValidate == Init /\ [][NextValidate]_vars

(***************************************************************************)
(* Concurrent editing: two sessions edit the test requests of one patient; *)
(* each session picks only a status its own dialog shows as reachable      *)
(***************************************************************************)
\* the statuses a request may move to from a status, the status itself included
AllowedNext(status) ==
    CASE status = PENDING -> {PENDING, IN_PROGRESS, COMPLETED, CANCELLED}
      [] status = IN_PROGRESS -> {IN_PROGRESS, COMPLETED, CANCELLED}
      [] OTHER -> {status}

NextConcurrentEdit ==
    \/ \E s \in Sessions : login(s, "admin", "admin123")
    \/ save_patient_generate("s1", "Jane Doe", "34", "Female")
    \/ save_patient_create("s1")
    \/ \E patient_id \in DOMAIN patients : request_test_for_patient("s1", patient_id)
    \/ save_test_requests("s1", {"uuid-02"}, "admin", {})
    \/ \E s \in Sessions, patient_id \in DOMAIN patients :
          view_patient_test_requests(s, patient_id)
    \/ \E s \in Sessions, request_id \in DOMAIN test_requests :
          edit_test_request(s, request_id)
    \/ \E s \in Sessions, status_text \in StatusComboValues("en") :
          /\ dialog[s].kind = "edit_request"
          /\ status_map("en", status_text) \in
                AllowedNext(dialog[s].request_map[dialog[s].request_id].status)
          /\ status_combo_select(s, status_text)
    \/ \E s \in Sessions : save_changes(s, "admin", TRUE)
    \/ \E s \in Sessions : close_dialog(s)

SpecConcurrentEdit == Init /\ [][NextConcurrentEdit]_vars

(***************************************************************************)
(* Exhausted id space: session s1 working on a store whose sequential ids  *)
(* have nearly run out, as after 99999998 added patients and 998 added     *)
(* tests with all but the last rows deleted                                *)
(***************************************************************************)
last_patients ==
    LET id == str(max_id(PatientIdWidth) - 1) IN
    id :> [id |-> id, name |-> "John Roe", age |-> 60, gender |-> "MALE",
           contact_info |-> ""]

last_tests ==
    LET id == test_id_text(max_id(TestIdWidth) - 1) IN
    id :> [id |-> id, name |-> "Troponin", price |-> 50, category |-> "Blood"]

InitExhaust ==
    /\ users = ("uuid-01" :> admin_user)
    /\ patients = last_patients
    /\ test_types = [id \in {"uuid-02", "uuid-03"} |-> sample_tests[id]] @@ last_tests
    /\ test_requests = << >>
    /\ samples = << >>
    /\ medical_reports = << >>
    /\ uuid_counter = 5
    /\ patient_log = <<str(max_id(PatientIdWidth) - 1)>>
    /\ current_user = [s \in Sessions |-> NoUser]
    /\ nav_buttons = [s \in Sessions |-> [b \in NavItems |-> DISABLED]]
    /\ admin_buttons = [s \in Sessions |-> [b \in AdminButtons |-> DISABLED]]
    /\ dialog = [s \in Sessions |-> NoDialog]
    /\ message = [s \in Sessions |-> ""]
    /\ language = [s \in Sessions |-> "en"]
    /\ system_name = [s \in Sessions |-> SystemName]

NextExhaust ==
    \/ login("s1", "admin", "admin123")
    \/ logout("s1")
    \/ \E name \in NameInputs, gender_text \in GenderTextInputs :
          save_patient_generate("s1", name, "34", gender_text)
    \/ save_patient_create("s1")
    \/ \E patient_id \in DOMAIN patients : delete_patient("s1", patient_id)
    \/ \E patient_id \in DOMAIN patients : edit_patient("s1", patient_id)
    \/ edit_patient_save_patient("s1", "Jane Roe", "34", "Female")
    \/ add_test("s1")
    \/ \E name \in TestNameInputs \ {"Ferritin (serum)"}, price_str \in {"50", "abc"} :
          save_test("s1", name, "Blood", price_str)
    \/ \E test_id \in DOMAIN test_types : edit_test("s1", test_id)
    \/ edit_test_save_test("s1", "Ferritin (serum)", "Blood", "50")
    \/ add_sample("s1")
    \/ \E selected_tests \in SUBSET {"uuid-02", "uuid-03"} :
          \E barcode \in [selected_tests -> {"BC-A"}] :
             save_sample("s1", "Jane Doe", selected_tests, "Collected", barcode, {})
    \/ close_dialog("s1")

SpecExhaust == InitExhaust /\ [][NextExhaust]_vars

(***************************************************************************)
(* Deleting test requests: session s1 adds samples and results and deletes *)
(* requests from the request list of a patient                             *)
(***************************************************************************)
NextDeleteRequest ==
    \/ login("s1", "admin", "admin123")
    \/ logout("s1")
    \/ add_sample("s1")
    \/ \E selected_tests \in SUBSET {"uuid-02"}, status_text \in SampleStatusTextInputs :
          \E barcode \in [selected_tests -> {"BC-A"}] :
             save_sample("s1", "Jane Doe", selected_tests, status_text, barcode, {})
    \/ create_new_result("s1")
    \/ \E patient_name \in PatientChoices("s1"), content \in ContentInputs :
          save_result("s1", patient_name, "uuid-03", content)
    \/ \E patient_id \in DOMAIN patients : view_patient_test_requests("s1", patient_id)
    \/ \E request_id \in DOMAIN test_requests : delete_selected_request("s1", request_id)
    \/ close_dialog("s1")

SpecDeleteRequest == Init /\ [][NextDeleteRequest]_vars

(***************************************************************************)
(* Adding samples: session s1 saves the add-sample dialog while the store  *)
(* may refuse a test request                                               *)
(***************************************************************************)
NextAddSample ==
    \/ login("s1", "admin", "admin123")
    \/ logout("s1")
    \/ add_sample("s1")
    \/ \E patient_name \in NameInputs, selected_tests \in SUBSET TestChoices,
          status_text \in SampleStatusTextInputs :
          \E barcode \in [selected_tests -> {"BC-A"}],
             failed_creates \in SUBSET selected_tests :
             save_sample("s1", patient_name, selected_tests, status_text, barcode,
                         failed_creates)
    \/ close_dialog("s1")

SpecAddSample == Init /\ [][NextAddSample]_vars

(***************************************************************************)
(* Users: two sessions add users to one store and their processes start    *)
(* again                                                                   *)
(***************************************************************************)
NextUsers ==
    \/ \E s \in Sessions : load_initial_data(s)
    \/ \E s \in Sessions, password \in {"admin123", "secret1"} : login(s, "admin", password)
    \/ \E s \in Sessions : logout(s)
    \/ \E s \in Sessions, username \in {"", "admin", "tech"}, is_active \in BOOLEAN :
          add_user_save_user(s, username, "user@lab.com", "secret1", "Technician",
                             is_active, {})
    \/ \E s \in Sessions : edit_user(s)

SpecUsers == Init /\ [][NextUsers]_vars

(***************************************************************************)
(* The header buttons of the administrator, with an administrator and a    *)
(* technician signing in and out                                           *)
(***************************************************************************)
NextAdmin ==
    \/ \E s \in Sessions, username \in {"admin", "tech"}, password \in {"admin123", "secret1"} :
          login(s, username, password)
    \/ \E s \in Sessions : logout(s)
    \/ \E s \in Sessions : logout_dialog_open(s)
    \/ \E s \in Sessions :
          add_user_save_user(s, "tech", "user@lab.com", "secret1", "Technician", TRUE, {})
    \/ \E s \in Sessions : edit_system_name(s)
    \/ \E s \in Sessions, new_name \in SystemNameInputs : save_system_name(s, new_name)
    \/ \E s \in Sessions : show_server_connection(s)
    \/ \E s \in Sessions : change_admin_password(s)
    \/ \E s \in Sessions, current_password, new_password, confirm_password \in PasswordFieldInputs,
             store_writes \in BOOLEAN :
          save_password(s, current_password, new_password, confirm_password, store_writes)
    \/ \E s \in Sessions : close_dialog(s)

SpecAdmin == Init /\ [][NextAdmin]_vars

(***************************************************************************)
(* Editing test requests: session s1 works in either language and leaves   *)
(* the status combo box alone, session s2 moves the requests through their *)
(* statuses; the store may refuse the write of s1                          *)
(***************************************************************************)
NextEditRequest ==
    \/ \E s \in Sessions : login(s, "admin", "admin123")
    \/ \E lang \in Languages : change_language("s1", lang)
    \/ save_patient_generate("s1", "Jane Doe", "34", "Female")
    \/ save_patient_create("s1")
    \/ \E patient_id \in DOMAIN patients : request_test_for_patient("s1", patient_id)
    \/ save_test_requests("s1", {"uuid-02"}, "admin", {})
    \/ \E s \in Sessions, patient_id \in DOMAIN patients :
          view_patient_test_requests(s, patient_id)
    \/ \E s \in Sessions, request_id \in DOMAIN test_requests :
          edit_test_request(s, request_id)
    \/ \E status_text \in StatusComboValues("en") :
          /\ dialog["s2"].kind = "edit_request"
          /\ status_map("en", status_text) \in
                AllowedNext(dialog["s2"].request_map[dialog["s2"].request_id].status)
          /\ status_combo_select("s2", status_text)
    \/ \E store_writes \in BOOLEAN : save_changes("s1", "Dr. Lee", store_writes)
    \/ save_changes("s2", "admin", TRUE)
    \/ close_dialog("s1")

SpecEditRequest == Init /\ [][NextEditRequest]_vars

(***************************************************************************)
(* Deleting test types: session s1 adds tests, and both sessions delete    *)
(* rows of the Tests table that carry a sequential id                      *)
(***************************************************************************)
NextDeleteTest ==
    \/ \E s \in Sessions : login(s, "admin", "admin123")
    \/ add_test("s1")
    \/ \E name \in {"", "Ferritin"} :
          /\ max_test_id(test_types) < MaxTestNumber
          /\ save_test("s1", name, "Blood", "50")
    \/ \E s \in Sessions, test_id \in DOMAIN test_types \ DOMAIN sample_tests :
          delete_test(s, test_id)
    \/ \E s \in Sessions : delete_test_confirmed(s)
    \/ close_dialog("s1")

SpecDeleteTest == Init /\ [][NextDeleteTest]_vars

(***************************************************************************)
(* Test request properties                                                 *)
(***************************************************************************)
\* the test requests persisted by the step
NewTestRequests == DOMAIN test_requests' \ DOMAIN test_requests

\* the statuses reachable from a status in PENDING -> IN_PROGRESS -> COMPLETED,
\* with CANCELLED reachable from PENDING and from IN_PROGRESS
ReachableStatus(status) ==
    CASE status = PENDING -> {IN_PROGRESS, COMPLETED, CANCELLED}
      [] status = IN_PROGRESS -> {COMPLETED, CANCELLED}
      [] OTHER -> {}

\* C1: the stored status of a TestRequest that is COMPLETED or CANCELLED
\* never changes, whatever operation is issued.
C1_TerminalStatusStays ==
    [][\A id \in DOMAIN test_requests \cap DOMAIN test_requests' :
          test_requests[id].status \in {COMPLETED, CANCELLED} =>
              test_requests'[id].status = test_requests[id].status]_vars

\* C2: every change of the stored status of a TestRequest goes to a status
\* reachable from the current one; IN_PROGRESS never goes back to PENDING.
C2_OnlyReachableTransitions ==
    [][\A id \in DOMAIN test_requests \cap DOMAIN test_requests' :
          test_requests'[id].status # test_requests[id].status =>
              test_requests'[id].status \in ReachableStatus(test_requests[id].status)]_vars

C4_CreationChecksReferences ==
    [][\A id \in NewTestRequests :
          /\ test_requests'[id].patient_id \in DOMAIN patients'
          /\ test_requests'[id].test_type_id \in DOMAIN test_types']_vars

(***************************************************************************)
(* Patient id properties                                                   *)
(***************************************************************************)
\* C5: every patient created has an id of exactly 8 digits that is
\* numerically greater than the id of every patient created before it
\* (and so differs from all of them).
C5_PatientIdsIncrease ==
    \A i \in 1..Len(patient_log) :
        /\ Len(patient_log[i]) = PatientIdWidth
        /\ \A j \in 1..(i - 1) : int(patient_log[j]) < int(patient_log[i])

\* C6: no patient id is handed out twice over the lifetime of the store.
C6_PatientIdNeverReused ==
    \A i, j \in 1..Len(patient_log) : i # j => patient_log[i] # patient_log[j]

\* C7: two sessions that have each obtained the next patient id and not yet
\* created their patient hold distinct, consecutive ids.
C7_ConcurrentIdsDistinct ==
    (dialog["s1"].kind = "add_patient" /\ dialog["s2"].kind = "add_patient") =>
        LET a == int(dialog["s1"].patient.id)
            b == int(dialog["s2"].patient.id)
        IN a # b /\ (a = b + 1 \/ b = a + 1)

(***************************************************************************)
(* Access control properties                                               *)
(***************************************************************************)
\* the screen through which the operations guarded by a permission are reached
NavItemOf(p) == CHOOSE c \in DOMAIN permissions_by_category : p \in permissions_by_category[c]

\* the decision the application takes for the user of session s: the
\* operations that need the permissions in required are enabled
authorized(s, required) ==
    /\ current_user[s] # NoUser
    /\ \A p \in required : nav_buttons[s][NavItemOf(p)] = NORMAL

\* C8: a logged-in user whose role is ADMIN is authorized for every
\* permission, whatever the explicit permission set holds, and has the
\* admin-only buttons enabled.
C8_AdminAlwaysAuthorized ==
    \A s \in Sessions :
        current_user[s].role = ADMIN =>
            /\ \A p \in Permission : authorized(s, {p})
            /\ authorized(s, Permission)
            /\ \A b \in AdminButtons : admin_buttons[s][b] = NORMAL

C8_Witness ==
    /\ current_user["s1"].role = ADMIN
    /\ current_user["s1"].permissions = {}
    /\ authorized("s1", {"VIEW_USERS", "SIGN_REPORT"})

\* C9: a user whose is_active flag is false is denied every operation: no
\* session of an inactive user has any operation enabled.
C9_InactiveUserDenied ==
    \A s \in Sessions :
        (current_user[s] # NoUser /\ ~current_user[s].is_active) =>
            /\ \A b \in NavItems : nav_buttons[s][b] = DISABLED
            /\ \A p \in current_user[s].permissions : ~authorized(s, {p})

\* C10: for an actor whose role is not ADMIN, a permission is authorized if
\* and only if the actor is active and holds that permission.
C10_NonAdminAuthorizedIffHeld ==
    \A s \in Sessions :
        (current_user[s] # NoUser /\ current_user[s].role # ADMIN) =>
            \A p \in Permission :
                authorized(s, {p}) <=>
                    (current_user[s].is_active /\ p \in current_user[s].permissions)

(***************************************************************************)
(* Report properties                                                       *)
(***************************************************************************)
\* the reports held by the store before and after the step
KeptReports == DOMAIN medical_reports \cap DOMAIN medical_reports'

\* C11: every unsigned report (signed_by = "N/A") whose content is updated
\* successfully is signed afterwards: signed_by is no longer "N/A" and
\* signed_at is set
C11_FirstSaveSigns ==
    [][\A r \in KeptReports :
          (/\ medical_reports[r].signed_by = "N/A"
           /\ medical_reports'[r].content # medical_reports[r].content)
          => /\ medical_reports'[r].signed_by # "N/A"
             /\ medical_reports'[r].signed_at = "now"]_vars

\* C12: an update of an already signed report changes nothing but its content:
\* signed_by and signed_at are the same before and after, whoever edits
C12_SignatureUntouched ==
    [][\A r \in KeptReports :
          medical_reports[r].signed_by # "N/A"
          => /\ medical_reports'[r].signed_by = medical_reports[r].signed_by
             /\ medical_reports'[r].signed_at = medical_reports[r].signed_at]_vars

\* C13: a signed report never becomes unsigned again, whatever content edits
\* follow, an edit saved without a current user included
C13_SignedStaysSigned ==
    [][\A r \in KeptReports :
          medical_reports[r].signed_by # "N/A"
          => medical_reports'[r].signed_by # "N/A"]_vars

\* C14: a report is persisted only when its test_request_id is the id of a
\* test request of the store
C14_ReportReferencesRequest ==
    [][\A r \in DOMAIN medical_reports' \ DOMAIN medical_reports :
          medical_reports'[r].test_request_id \in DOMAIN test_requests']_vars

(***************************************************************************)
(* Sample properties                                                       *)
(***************************************************************************)
\* C15: the status of a sample is an unconstrained setter: whatever the stored
\* status, the update dialog stores each of the three statuses when it is
\* chosen, backward changes included; no status is terminal
C15_SampleStatusUnconstrained ==
    \A s \in Sessions :
       (/\ dialog[s].kind = "update_sample_status"
        /\ dialog[s].sample.id \in DOMAIN samples)
       => \A to \in SampleStatus :
             dialog[s].status_var = SampleStatusValue(to)
             => ENABLED (/\ update_status(s)
                         /\ samples'[dialog[s].sample.id].status = to)

\* a sample created as PROCESSING is COLLECTED: it was set back; the dialog is
\* open on a COMPLETED sample with Collected chosen: it is about to be set back
C15_Witness ==
    /\ \E id \in DOMAIN samples : samples[id].status = COLLECTED
    /\ \E s \in Sessions :
          /\ dialog[s].kind = "update_sample_status"
          /\ dialog[s].sample.id \in DOMAIN samples
          /\ samples[dialog[s].sample.id].status = COMPLETED
          /\ dialog[s].status_var = "Collected"

\* C16: the status of a sample and the status of its test request are
\* independent: a step that changes the one leaves the other as it was
C16_StatusesIndependent ==
    [][/\ (\E id \in DOMAIN samples \cap DOMAIN samples' :
              samples'[id].status # samples[id].status)
          => test_requests' = test_requests
       /\ (\E id \in DOMAIN test_requests \cap DOMAIN test_requests' :
              test_requests'[id].status # test_requests[id].status)
          => samples' = samples]_vars

\* a sample set to COMPLETED under a request set to CANCELLED, next to a
\* sample set to COMPLETED under a request that is still PENDING
C16_Witness ==
    /\ \E id \in DOMAIN samples :
          /\ samples[id].status = COMPLETED
          /\ samples[id].test_request_id \in DOMAIN test_requests
          /\ test_requests[samples[id].test_request_id].status = CANCELLED
    /\ \E id \in DOMAIN samples :
          /\ samples[id].status = COMPLETED
          /\ samples[id].test_request_id \in DOMAIN test_requests
          /\ test_requests[samples[id].test_request_id].status = PENDING

(***************************************************************************)
(* Batch properties                                                        *)
(***************************************************************************)
\* C18: a batch request attempts every selected item: the number of requests
\* persisted is the success count reported, success count plus reported
\* failures is the number of selected items, and a failed item neither stops
\* the items after it nor removes a request persisted before
C18_BatchCountsAddUp ==
    [][\A s \in Sessions, selected_indices \in SUBSET TestChoices,
          requested_by \in RequestedByInputs :
          \A failed_creates \in SUBSET selected_indices :
             (/\ selected_indices # {}
              /\ requested_by # ""
              /\ save_test_requests(s, selected_indices, requested_by, failed_creates))
             => /\ message'[s] =
                      request_report(
                         Cardinality(NewTestRequests),
                         Cardinality(selected_indices) - Cardinality(NewTestRequests))
                /\ {test_requests'[id].test_type_id : id \in NewTestRequests}
                      = selected_indices \ failed_creates
                /\ \A id \in DOMAIN test_requests :
                      id \in DOMAIN test_requests' /\ test_requests'[id] = test_requests[id]]_vars

\* the first of the two selected items failed; the second one was attempted
\* all the same and is persisted
C18_Witness ==
    /\ message["s1"] = request_report(1, 1)
    /\ Cardinality(DOMAIN test_requests) = 1
    /\ \A id \in DOMAIN test_requests : test_requests[id].test_type_id = "uuid-03"

(***************************************************************************)
(* Rejected input                                                          *)
(***************************************************************************)
\* the entities held by storage
entities == <<users, patients, test_types, test_requests, samples, medical_reports>>

\* C17: a step of session s1 that ends with a rejection reported ("Error")
\* leaves every stored entity as it was, and the next sequential patient id
\* and test id are the ones the store would have handed out before the step
C17_RejectionBeforeMutation ==
    [][message'["s1"] = "Error" =>
          /\ entities' = entities
          /\ patient_log' = patient_log
          /\ generate_patient_id(patients') = generate_patient_id(patients)
          /\ get_next_test_id(test_types') = get_next_test_id(test_types)]_vars

\* the edit-test dialog is still open after a rejection while the store holds a
\* patient, a report and the test type added before
C17_Witness ==
    /\ message["s1"] = "Error"
    /\ dialog["s1"].kind = "edit_test"
    /\ "001" \in DOMAIN test_types
    /\ test_types["001"].name = "Ferritin"
    /\ patients # << >>
    /\ medical_reports # << >>

(***************************************************************************)
(* Concurrent editing                                                      *)
(***************************************************************************)
\* C19: whenever the stored row of a TestRequest changes, the status written
\* is one the state machine allows from the status storage held at the time of
\* the write, and the copy the writing session edited is the row storage held,
\* so that no update of another session is overwritten.
C19_AtomicTransition ==
    [][\A id \in DOMAIN test_requests \cap DOMAIN test_requests' :
          test_requests'[id] # test_requests[id] =>
              /\ test_requests'[id].status \in AllowedNext(test_requests[id].status)
              /\ \E s \in Sessions :
                    /\ dialog[s].kind = "edit_request"
                    /\ dialog[s].request_id = id
                    /\ dialog[s].request_map[id] = test_requests[id]]_vars

C21_ReferencedRequestKept ==
    /\ \A id \in DOMAIN samples : samples[id].test_request_id \in DOMAIN test_requests
    /\ \A id \in DOMAIN medical_reports :
          medical_reports[id].test_request_id \in DOMAIN test_requests

(***************************************************************************)
(* Samples and their test request                                          *)
(***************************************************************************)
\* C22: every Sample a step persists references a TestRequest that storage
\* holds once the step is done; a sample is not created for a request whose
\* create failed.
C22_SampleReferencesRequest ==
    [][\A id \in DOMAIN samples' \ DOMAIN samples :
          samples'[id].test_request_id \in DOMAIN test_requests']_vars

C24_StoredFieldsValid ==
    /\ \A id \in DOMAIN patients :
          /\ patients[id].name # ""
          /\ patients[id].age \in 0..150
    /\ \A id \in DOMAIN test_types :
          /\ test_types[id].name # ""
          /\ test_types[id].category # ""
          /\ float_ge(test_types[id].price, 0)

(***************************************************************************)
(* The two signature fields                                                *)
(***************************************************************************)
\* signed_at of a report that carries no time
NoTime == ""

\* C25: a stored MedicalReport has signed_at set if and only if its signed_by
\* is not "N/A".
C25_SignatureFieldsTogether ==
    \A r \in DOMAIN medical_reports :
        medical_reports[r].signed_at # NoTime <=> medical_reports[r].signed_by # "N/A"

(***************************************************************************)
(* The operations of the administrator                                     *)
(***************************************************************************)
\* a step of one of the three operations of the administrator in session s,
\* the Save of its dialog included
AdminOperation(s) ==
    \/ edit_system_name(s)
    \/ \E new_name \in SystemNameInputs : save_system_name(s, new_name)
    \/ show_server_connection(s)
    \/ change_admin_password(s)
    \/ \E current_password, new_password, confirm_password \in PasswordFieldInputs,
          store_writes \in BOOLEAN :
          save_password(s, current_password, new_password, confirm_password, store_writes)

\* C26: edit_system_name, show_server_connection and change_admin_password
\* taken while nobody is logged in, or while the user logged in is not an
\* ADMIN, change neither the system name nor any stored user.
C26_AdminOnly ==
    [][\A s \in Sessions :
          (/\ AdminOperation(s)
           /\ (current_user[s] = NoUser \/ current_user[s].role # ADMIN))
          => /\ system_name' = system_name
             /\ users' = users]_vars

\* the fields of the change-password dialog pass every check of the claim
password_fields_valid(s, current_password, new_password, confirm_password) ==
    /\ current_password # "" /\ new_password # "" /\ confirm_password # ""
    /\ new_password = confirm_password
    /\ Len(new_password) >= MinPasswordLength
    /\ current_user[s] # NoUser
    /\ current_user[s].id \in DOMAIN users
    /\ hash_password(current_password) = users[current_user[s].id].password_hash

\* C27: save_password leaves the stored hashes and the password_hash of the
\* session user as they were unless every field passes its check and the
\* store takes the update.
C27_HashChangesOnlyOnSuccess ==
    [][\A s \in Sessions :
       \A current_password, new_password, confirm_password \in PasswordFieldInputs :
       \A store_writes \in BOOLEAN :
          (/\ save_password(s, current_password, new_password, confirm_password, store_writes)
           /\ ~(/\ password_fields_valid(s, current_password, new_password, confirm_password)
                /\ store_writes))
          => /\ users' = users
             /\ current_user'[s] = current_user[s]]_vars

(***************************************************************************)
(* The edit dialog of a test request                                       *)
(***************************************************************************)
\* the request the edit dialog of session s is open on
edited_request(s) == dialog[s].request_map[dialog[s].request_id]

\* C28: when the write of save_changes fails, the request held by the request
\* list of the session still equals the stored request, if it did so before.
C28_FailedEditLeavesListAsStored ==
    [][(/\ save_changes("s1", "Dr. Lee", FALSE)
           /\ edited_request("s1").id \in DOMAIN test_requests
           /\ edited_request("s1") = test_requests[edited_request("s1").id])
          => LET id == edited_request("s1").id IN
             dialog'["s1"].request_map[id] = test_requests'[id]]_vars

\* C29: a save of the edit dialog in which no status was chosen, on a request
\* whose status in the dialog is the stored one, leaves the stored status as
\* it was, in either language.
C29_StatusKeptWithoutChoice ==
    [][\A store_writes \in BOOLEAN :
          (/\ save_changes("s1", "Dr. Lee", store_writes)
           /\ edited_request("s1").id \in DOMAIN test_requests
           /\ edited_request("s1").status = test_requests[edited_request("s1").id].status)
          => LET id == edited_request("s1").id IN
             test_requests'[id].status = test_requests[id].status]_vars

(***************************************************************************)
(* Deleting a test type                                                    *)
(***************************************************************************)
\* C30: delete_test removes no test type but the one of the selected row.
C30_DeletesSelectedOnly ==
    [][\A s \in Sessions :
          delete_test_confirmed(s)
          => (DOMAIN test_types \ DOMAIN test_types') \subseteq {dialog[s].test_id}]_vars

====
